---- MODULE Spec2Model ----
(***************************************************************************)
(* A model of the SQL canonicalizer (src/sql_canonicalizer.py).            *)
(*                                                                         *)
(* SQL text is a TLA+ string; Len, SubSeq and \o are the sequence          *)
(* operators on strings.  Python's 0-based indices are kept in the         *)
(* segmenter (At, Slice); the regular expressions of the source are        *)
(* operators over 1-based positions.  The character classes \w, \s, \d     *)
(* are the ASCII ones.                                                     *)
(***************************************************************************)
EXTENDS Integers, Sequences, FiniteSets, TLC

VARIABLES
    mode,       \* "generic" (canonicalize_sql) or "bird" (canonicalize_sql_bird)
    schema,     \* the (table, column) -> type mapping, in its iteration order
    rows,       \* the queries of the input file, in the order the reader hands them over
    sql,        \* the argument of the running call
    pc,         \* the position of the running call
    scan,       \* the locals of _split_comments: i, in_single, in_double, code_start, segments
    ids,        \* what _collect_identifiers_regex returned, with the iteration orders of its sets
    k,          \* the index of the segment the emitting loop is at
    result,     \* the list `result` of canonicalize_sql / canonicalize_sql_bird
    outs,       \* the strings returned so far, one per call
    templates,  \* enumerate_combinations: the list `templates`, (template_id, canonical_sql)
    databases,  \* the items of its argument schema_by_db, (db_id, schema), in dict order
    loop,       \* where its loops are: the template, the database, the combinations left
    written,    \* the rows handed to writer.writerow so far
    count       \* its local `count`

canonVars == <<mode, schema, rows, sql, pc, scan, ids, k, result, outs>>

enumVars == <<templates, databases, loop, written, count>>

vars == <<mode, schema, rows, sql, pc, scan, ids, k, result, outs,
          templates, databases, loop, written, count>>

\* enumerate_combinations is not running
NoLoop == [pc |-> "off", max_tables |-> 1, t |-> 0, d |-> 0, parsed |-> <<>>,
           table_combos |-> <<>>, table_combo |-> <<>>, col_combos |-> <<>>]

EnumIdle ==
    /\ templates = <<>>
    /\ databases = <<>>
    /\ loop = NoLoop
    /\ written = <<>>
    /\ count = 0

----------------------------------------------------------------------------
(* Characters and strings *)

Min(a, b) == IF a < b THEN a ELSE b

Max(a, b) == IF a > b THEN a ELSE b

BACKSLASH == "\\"

DQUOTE == "\""

SQUOTE == "'"

NEWLINE == "\n"

Digits == {"0", "1", "2", "3", "4", "5", "6", "7", "8", "9"}

LowerLetters == <<"a", "b", "c", "d", "e", "f", "g", "h", "i", "j", "k", "l", "m",
                  "n", "o", "p", "q", "r", "s", "t", "u", "v", "w", "x", "y", "z">>

UpperLetters == <<"A", "B", "C", "D", "E", "F", "G", "H", "I", "J", "K", "L", "M",
                  "N", "O", "P", "Q", "R", "S", "T", "U", "V", "W", "X", "Y", "Z">>

LowerSet == {LowerLetters[j] : j \in DOMAIN LowerLetters}

UpperSet == {UpperLetters[j] : j \in DOMAIN UpperLetters}

UpperOf == [c \in LowerSet |-> UpperLetters[CHOOSE j \in DOMAIN LowerLetters : LowerLetters[j] = c]]

LowerOf == [c \in UpperSet |-> LowerLetters[CHOOSE j \in DOMAIN UpperLetters : UpperLetters[j] = c]]

WordChars == LowerSet \cup UpperSet \cup Digits \cup {"_"}

SpaceChars == {" ", "\n", "\t", "\r", "\f"}

\* s[i] with Python's 0-based index; "" when i is out of range
At(s, i) == IF i >= 0 /\ i < Len(s) THEN SubSeq(s, i + 1, i + 1) ELSE ""

\* s[a:b] with Python's 0-based, end-exclusive, clamped slice
Slice(s, a, b) == SubSeq(s, Max(a, 0) + 1, Min(b, Len(s)))

\* the character at 1-based position p; "" when p is out of range
Ch(s, p) == IF p >= 1 /\ p <= Len(s) THEN SubSeq(s, p, p) ELSE ""

IsWordCh(c) == c \in WordChars

IsSpaceCh(c) == c \in SpaceChars

IsDigitCh(c) == c \in Digits

UpperCh(c) == IF c \in LowerSet THEN UpperOf[c] ELSE c

LowerCh(c) == IF c \in UpperSet THEN LowerOf[c] ELSE c

RECURSIVE UpperRange(_, _, _)
\* the characters a .. b of s in upper case (by halves, so that the nesting stays shallow)
UpperRange(s, a, b) ==
    IF a > b THEN ""
    ELSE IF a = b THEN UpperCh(SubSeq(s, a, a))
    ELSE UpperRange(s, a, (a + b) \div 2) \o UpperRange(s, (a + b) \div 2 + 1, b)

\* str.upper()
Upper(s) == UpperRange(s, 1, Len(s))

RECURSIVE LowerRange(_, _, _)
LowerRange(s, a, b) ==
    IF a > b THEN ""
    ELSE IF a = b THEN LowerCh(SubSeq(s, a, a))
    ELSE LowerRange(s, a, (a + b) \div 2) \o LowerRange(s, (a + b) \div 2 + 1, b)

\* str.lower()
Lower(s) == LowerRange(s, 1, Len(s))

\* a test that takes only the empty string for blank
IsEmptyString(s) == s = ""

\* not s.strip()
IsBlank(s) == \A p \in 1 .. Len(s) : IsSpaceCh(SubSeq(s, p, p))

RECURSIVE JoinRange(_, _, _)
JoinRange(ss, a, b) ==
    IF a > b THEN ""
    ELSE IF a = b THEN ss[a]
    ELSE JoinRange(ss, a, (a + b) \div 2) \o JoinRange(ss, (a + b) \div 2 + 1, b)

\* "".join(ss)
Join(ss) == JoinRange(ss, 1, Len(ss))

\* the least element of a non-empty set of integers
SetMin(S) == CHOOSE x \in S : \A y \in S : x <= y

\* the element of a one-element set.  The(\{f(x) : x \in \{e\}\}) is f(e) with e computed
\* first, as a statement `x = e` of the source computes e before the statement after it
The(S) == CHOOSE x \in S : TRUE

----------------------------------------------------------------------------
(* _split_comments *)

Segment(is_comment, text) == [is_comment |-> is_comment, text |-> text]

ScanInit ==
    [i |-> 0, in_single |-> FALSE, in_double |-> FALSE, code_start |-> 0, segments |-> <<>>]

\* the branch without the `i += 1` that follows the skip of an escaped character, and
\* with the skip undone: at a backslash the position stays where it is
InSingleStepStalls(s, st) ==
    LET i == st.i
        n == Len(s)
    IN IF At(s, i) = SQUOTE /\ (i + 1 >= n \/ At(s, i + 1) # SQUOTE)
       THEN [st EXCEPT !.in_single = FALSE, !.i = i + 1]
       ELSE IF At(s, i) = BACKSLASH
            THEN st
            ELSE [st EXCEPT !.i = i + 1]

\* the branch `if in_single:` of the loop body
InSingleStep(s, st) ==
    LET i == st.i
        n == Len(s)
    IN IF At(s, i) = SQUOTE /\ (i + 1 >= n \/ At(s, i + 1) # SQUOTE)
       THEN [st EXCEPT !.in_single = FALSE, !.i = i + 1]
       ELSE IF At(s, i) = BACKSLASH
            THEN [st EXCEPT !.i = i + 2]
            ELSE [st EXCEPT !.i = i + 1]

\* the branch `if in_double:` of the loop body
InDoubleStep(s, st) ==
    LET i == st.i
        n == Len(s)
    IN IF At(s, i) = DQUOTE /\ (i + 1 >= n \/ At(s, i + 1) # DQUOTE)
       THEN [st EXCEPT !.in_double = FALSE, !.i = i + 1]
       ELSE IF At(s, i) = BACKSLASH
            THEN [st EXCEPT !.i = i + 2]
            ELSE [st EXCEPT !.i = i + 1]

\* the segments after `if i > code_start: segments.append((False, sql[code_start:i]))`
FlushCode(s, st) ==
    IF st.i > st.code_start
    THEN Append(st.segments, Segment(FALSE, Slice(s, st.code_start, st.i)))
    ELSE st.segments

\* `while i < n and sql[i] != "\n": i += 1`: the least j >= i the loop stops at
LineCommentScan(s, i) ==
    IF i >= Len(s) THEN i
    ELSE SetMin({j \in i .. Len(s) : j = Len(s) \/ At(s, j) = NEWLINE})

\* the scan above, then `if i < n: i += 1`
LineCommentEnd(s, i) ==
    LET j == LineCommentScan(s, i)
    IN IF j < Len(s) THEN j + 1 ELSE j

IsLineCommentAt(s, st) ==
    ~st.in_single /\ ~st.in_double /\ st.i + 2 <= Len(s) /\ Slice(s, st.i, st.i + 2) = "--"

\* the comment segment without the newline that ends it, which no segment then holds
LineCommentStepDropsNewline(s, st) ==
    LET e == LineCommentEnd(s, st.i + 2)
    IN [st EXCEPT !.segments = Append(FlushCode(s, st),
                                      Segment(TRUE, Slice(s, st.i, LineCommentScan(s, st.i + 2)))),
                  !.i = e,
                  !.code_start = e]

\* the branch of the loop body that consumes a `--` comment
LineCommentStep(s, st) ==
    LET e == LineCommentEnd(s, st.i + 2)
    IN [st EXCEPT !.segments = Append(FlushCode(s, st), Segment(TRUE, Slice(s, st.i, e))),
                  !.i = e,
                  !.code_start = e]

\* `while i < n - 1 and sql[i : i + 2] != "*/": i += 1`: the least j >= i the loop stops at
BlockCommentScan(s, i) ==
    IF i >= Len(s) - 1 THEN i
    ELSE SetMin({j \in i .. Len(s) - 1 : j = Len(s) - 1 \/ Slice(s, j, j + 2) = "*/"})

\* a scan for `*/` that begins at the `*` of the opening marker
BlockCommentEndFromMarker(s, i) ==
    LET j == BlockCommentScan(s, i - 1)
    IN IF j < Len(s) - 1 THEN j + 2 ELSE Len(s)

\* the scan above, then `i = i + 2 if i < n - 1 else n`
BlockCommentEnd(s, i) ==
    LET j == BlockCommentScan(s, i)
    IN IF j < Len(s) - 1 THEN j + 2 ELSE Len(s)

IsBlockCommentAt(s, st) ==
    ~st.in_single /\ ~st.in_double /\ st.i + 2 <= Len(s) /\ Slice(s, st.i, st.i + 2) = "/*"

\* the branch with a scan that reads the quotes: a `'` in the comment opens a literal
BlockCommentStepReadsQuotes(s, st) ==
    LET e == BlockCommentEnd(s, st.i + 2)
    IN [st EXCEPT !.segments = Append(FlushCode(s, st), Segment(TRUE, Slice(s, st.i, e))),
                  !.i = e,
                  !.code_start = e,
                  !.in_single = \E p \in st.i .. e - 1 : At(s, p) = SQUOTE]

\* the branch of the loop body that consumes a `/* */` comment
BlockCommentStep(s, st) ==
    LET e == BlockCommentEnd(s, st.i + 2)
    IN [st EXCEPT !.segments = Append(FlushCode(s, st), Segment(TRUE, Slice(s, st.i, e))),
                  !.i = e,
                  !.code_start = e]

\* the last branch of the loop body: a character of code, which may open a quote
CodeStep(s, st) ==
    LET i == st.i
    IN IF At(s, i) = SQUOTE /\ ~st.in_double
       THEN [st EXCEPT !.in_single = TRUE, !.i = i + 1]
       ELSE IF At(s, i) = DQUOTE /\ ~st.in_single
            THEN [st EXCEPT !.in_double = TRUE, !.i = i + 1]
            ELSE [st EXCEPT !.i = i + 1]

\* one iteration of `while i < n:`
ScanStep(s, st) ==
    IF st.in_single THEN InSingleStep(s, st)
    ELSE IF st.in_double THEN InDoubleStep(s, st)
    ELSE IF IsLineCommentAt(s, st) THEN LineCommentStep(s, st)
    ELSE IF IsBlockCommentAt(s, st) THEN BlockCommentStep(s, st)
    ELSE CodeStep(s, st)

\* `if code_start < n: segments.append((False, sql[code_start:n]))`
ScanFinish(s, st) ==
    IF st.code_start < Len(s)
    THEN [st EXCEPT !.segments = Append(st.segments, Segment(FALSE, Slice(s, st.code_start, Len(s))))]
    ELSE st

SegmentTexts(segs) == [j \in DOMAIN segs |-> segs[j].text]

----------------------------------------------------------------------------
(* The regular-expression primitives the source's patterns are built from *)

\* s[p..e-1], clamped to the string
Sub(s, p, e) == SubSeq(s, Max(p, 1), Min(e - 1, Len(s)))

\* \b at position p: between the characters at p - 1 and p
WordBoundary(s, p) == IsWordCh(Ch(s, p - 1)) # IsWordCh(Ch(s, p))

\* the first position at or after p whose character is not in class: a greedy run
RunEnd(s, p, class) ==
    The({IF Ch(s, b) \notin class THEN b
         ELSE SetMin({q \in b + 1 .. Len(s) + 1 :
                         Ch(s, q) \notin class /\ \A r \in b + 1 .. q - 1 : Ch(s, r) \in class}) :
         b \in {p}})

\* \s* from p, greedy: the first position at or after p that holds no whitespace
SkipSpaces(s, p) == RunEnd(s, p, SpaceChars)

\* \w* from p, greedy: the first position at or after p that holds no word character
WordEnd(s, p) == RunEnd(s, p, WordChars)

\* \d* from p, greedy
DigitsEnd(s, p) == RunEnd(s, p, Digits)

\* the literal text lit at p
LitAt(s, p, lit) == p >= 1 /\ p + Len(lit) - 1 <= Len(s) /\ SubSeq(s, p, p + Len(lit) - 1) = lit

\* the literal text lit at p under (?i); lit is given in upper case
LitAtCI(s, p, lit) ==
    \A j \in 1 .. Len(lit) : UpperCh(Ch(s, p + j - 1)) = SubSeq(lit, j, j)

RECURSIVE ReSubFrom(_, _, _, _, _)
\* the scan of re.sub from p: the next match is the leftmost one that starts at or after p
ReSubFrom(MatchEnd(_, _), repl, s, starts, p) ==
    LET ahead == {q \in starts : q >= p}
    IN IF ahead = {} THEN Sub(s, p, Len(s) + 1)
       ELSE The({Sub(s, p, q) \o repl \o ReSubFrom(MatchEnd, repl, s, starts, e) :
                 <<q, e>> \in {<<r, MatchEnd(s, r)>> : r \in {SetMin(ahead)}}})

\* re.sub(pattern, repl, s) for a pattern that matches no empty string: MatchEnd(s, p)
\* is the position after the match found at p, or 0 when the pattern does not match at p
ReSub(MatchEnd(_, _), repl, s) ==
    The({ReSubFrom(MatchEnd, repl, s, starts, 1) :
         starts \in {{q \in 1 .. Len(s) : MatchEnd(s, q) > q}}})

\* the first position at or after p that holds one of the characters cs; Len(s) + 1 if none
NextOf(s, p, cs) ==
    The({SetMin({q \in b .. Len(s) + 1 : q = Len(s) + 1 \/ Ch(s, q) \in cs}) :
         b \in {Min(Max(p, 1), Len(s) + 1)}})

RECURSIVE SingleQuotedScan(_, _, _)
\* ([^']|'')*' from q; back is where the match ends when the scan runs off the string and
\* the engine backtracks into the last '' pair it consumed, taking its first quote as the close
SingleQuotedScan(s, q, back) ==
    LET r == NextOf(s, q, {SQUOTE})
    IN IF r > Len(s) THEN back
       ELSE IF Ch(s, r + 1) = SQUOTE THEN SingleQuotedScan(s, r + 2, r + 1)
       ELSE r + 1

\* '([^']|'')*' at p
SingleQuotedEnd(s, p) == IF Ch(s, p) = SQUOTE THEN SingleQuotedScan(s, p + 1, 0) ELSE 0

RECURSIVE DoubleQuotedScan(_, _)
\* ([^"\\]|\\.)*" from q
DoubleQuotedScan(s, q) ==
    LET r == NextOf(s, q, {DQUOTE, BACKSLASH})
    IN IF r > Len(s) THEN 0
       ELSE IF Ch(s, r) = DQUOTE THEN r + 1
       ELSE IF r + 1 <= Len(s) /\ Ch(s, r + 1) # NEWLINE THEN DoubleQuotedScan(s, r + 2)
       ELSE 0

\* "([^"\\]|\\.)*" at p
DoubleQuotedEnd(s, p) == IF Ch(s, p) = DQUOTE THEN DoubleQuotedScan(s, p + 1) ELSE 0

DateKeywords == <<"DATE", "TIMESTAMP", "TIME", "INTERVAL">>

DateKeywordEnd(s, p, kw) ==
    IF LitAtCI(s, p, kw) THEN SingleQuotedEnd(s, SkipSpaces(s, p + Len(kw))) ELSE 0

\* (?i)\b(DATE|TIMESTAMP|TIME|INTERVAL)\s*'([^']|'')*' at p
DateLiteralEnd(s, p) ==
    IF ~WordBoundary(s, p) THEN 0
    ELSE IF DateKeywordEnd(s, p, DateKeywords[1]) > 0 THEN DateKeywordEnd(s, p, DateKeywords[1])
    ELSE IF DateKeywordEnd(s, p, DateKeywords[2]) > 0 THEN DateKeywordEnd(s, p, DateKeywords[2])
    ELSE IF DateKeywordEnd(s, p, DateKeywords[3]) > 0 THEN DateKeywordEnd(s, p, DateKeywords[3])
    ELSE DateKeywordEnd(s, p, DateKeywords[4])

\* ([eE][-+]?\d+)\b at q: the position after the exponent, 0 when there is none that
\* ends at a word boundary
ExponentEnd(s, q) ==
    IF Ch(s, q) \notin {"e", "E"} THEN 0
    ELSE LET d == IF Ch(s, q + 1) \in {"-", "+"} THEN q + 2 ELSE q + 1
             e == DigitsEnd(s, d)
         IN IF e > d /\ WordBoundary(s, e) THEN e ELSE 0

\* \b\d+\.?\d*([eE][-+]?\d+)?\b at p, in the order the backtracking engine tries
NumberEnd(s, p) ==
    IF ~(WordBoundary(s, p) /\ IsDigitCh(Ch(s, p))) THEN 0
    ELSE LET d1 == DigitsEnd(s, p)
             d2 == DigitsEnd(s, d1 + 1)
         IN IF Ch(s, d1) = "."
            THEN IF ExponentEnd(s, d2) > 0 THEN ExponentEnd(s, d2)
                 ELSE IF WordBoundary(s, d2) THEN d2
                 ELSE IF WordBoundary(s, d1 + 1) THEN d1 + 1
                 ELSE d1
            ELSE IF ExponentEnd(s, d1) > 0 THEN ExponentEnd(s, d1)
                 ELSE IF WordBoundary(s, d1) THEN d1
                 ELSE 0

\* \b\.\d+([eE][-+]?\d+)?\b at p
DotNumberEnd(s, p) ==
    IF ~(Ch(s, p) = "." /\ WordBoundary(s, p) /\ IsDigitCh(Ch(s, p + 1))) THEN 0
    ELSE LET d == DigitsEnd(s, p + 1)
         IN IF ExponentEnd(s, d) > 0 THEN ExponentEnd(s, d)
            ELSE IF WordBoundary(s, d) THEN d
            ELSE 0

\* the five re.sub passes that _replace_literals and _replace_literals_bird share:
\* date literals, single-quoted strings, double-quoted strings, numbers, dot-numbers
LiteralPasses(s, date_tag, str_tag, num_tag) ==
    The({ReSub(DotNumberEnd, num_tag, d) :
         d \in {ReSub(NumberEnd, num_tag, c) :
         c \in {ReSub(DoubleQuotedEnd, str_tag, b) :
         b \in {ReSub(SingleQuotedEnd, str_tag, a) :
         a \in {ReSub(DateLiteralEnd, date_tag, s)}}}}})

\* _replace_literals(sql)
ReplaceLiterals(s) == LiteralPasses(s, "DATE", "STR", "NUM")

----------------------------------------------------------------------------
(* _is_numeric_token *)

RECURSIVE IsDigitGroups(_, _, _)
\* digits, with single underscores between digits, from p to e - 1: what float() takes
\* as a run of digits
IsDigitGroups(w, p, e) ==
    /\ p < e
    /\ IsDigitCh(Ch(w, p))
    /\ \/ p + 1 = e
       \/ IsDigitGroups(w, p + 1, e)
       \/ (Ch(w, p + 1) = "_" /\ IsDigitGroups(w, p + 2, e))

\* float(w) succeeds for a token w of word characters: digits, digits with an exponent,
\* or one of the names float() knows
FloatParses(w) ==
    \/ IsDigitGroups(w, 1, Len(w) + 1)
    \/ \E q \in 2 .. Len(w) - 1 :
          /\ Ch(w, q) \in {"e", "E"}
          /\ IsDigitGroups(w, 1, q)
          /\ IsDigitGroups(w, q + 1, Len(w) + 1)
    \/ Upper(w) \in {"INF", "INFINITY", "NAN"}

\* _is_numeric_token(w)
IsNumericToken(w) ==
    IF w = "" THEN FALSE
    ELSE IF DigitsEnd(w, 1) = Len(w) + 1 THEN TRUE
    ELSE FloatParses(w)

----------------------------------------------------------------------------
(* _collect_identifiers_regex *)

\* not_table_alias_kw (lines 171-175)
not_table_alias_kw ==
    {"ON", "USING", "WHERE", "LEFT", "RIGHT", "INNER", "OUTER", "CROSS", "JOIN", "GROUP",
    "ORDER", "HAVING", "LIMIT", "OFFSET", "AND", "OR", "BY", "SELECT", "FROM", "AS", "WITH",
    "END", "THEN", "ELSE", "WHEN", "NULL", "TRUE", "FALSE"}

\* col_alias_kw (lines 219-224)
col_alias_kw ==
    {"SELECT", "FROM", "WHERE", "GROUP", "ORDER", "BY", "HAVING", "ON", "AND", "OR", "END",
    "THEN", "ELSE", "WHEN", "NULL", "TRUE", "FALSE", "WITH", "AS", "DISTINCT", "FILTER",
    "WITHIN", "OVER", "PARTITION", "BETWEEN", "LIKE", "IN", "IS", "NOT", "EXISTS", "CASE",
    "ASC", "DESC", "LIMIT", "OFFSET"}

\* placeholder_keywords (lines 253-259)
placeholder_keywords ==
    {"NUM", "STR", "DATE", "TABLE_NAME", "COL_NAME", "TABLE_ALIAS_PLACEHOLDER0",
    "TABLE_ALIAS_PLACEHOLDER1", "TABLE_ALIAS_PLACEHOLDER2", "COL_ALIAS_PLACEHOLDER0",
    "COL_ALIAS_PLACEHOLDER1", "COL_ALIAS_PLACEHOLDER2", "num", "string", "date", "boolean",
    "table_alias0", "table_alias1", "table_alias2", "column_alias0", "column_alias1",
    "column_alias2"}

\* the set literal of lines 260-275, before `| placeholder_keywords`
sql_keywords ==
    {"SELECT", "FROM", "WHERE", "GROUP", "BY", "ORDER", "HAVING", "ON", "AND", "OR", "JOIN",
    "LEFT", "RIGHT", "INNER", "OUTER", "CROSS", "FULL", "AS", "DISTINCT", "NULL", "TRUE",
    "FALSE", "BETWEEN", "LIKE", "IN", "IS", "NOT", "EXISTS", "CASE", "WHEN", "THEN", "ELSE",
    "END", "ASC", "DESC", "LIMIT", "OFFSET", "WITH", "FILTER", "WITHIN", "OVER", "PARTITION",
    "RANGE", "ROWS", "USING", "TABLE", "INTO", "UPDATE", "SET", "VALUES", "INSERT", "DELETE",
    "CREATE", "ALTER", "DROP", "INDEX", "PRIMARY", "KEY", "REFERENCES", "COUNT", "SUM", "AVG",
    "MIN", "MAX", "STDDEV", "PERCENTILE_CONT", "ABS", "ROUND", "STRING_AGG",
    "JSON_BUILD_OBJECT", "JSON_OBJECT_AGG", "COALESCE", "NULLIF", "CAST", "EXTRACT", "UNNEST",
    "ARRAY", "SUBSTR", "SUBSTRING", "STRFTIME", "LENGTH", "CONCAT", "REPLACE", "TRIM", "UPPER",
    "LOWER", "INSTR", "DATE", "YEAR", "MONTH", "LATERAL", "UNION", "EXCEPT", "INTERSECT",
    "ALL", "ANY", "SIGNAL", "NOISE", "SNQI", "SSM", "TOLS", "MCS", "RPI", "BFR", "LIF", "CCS",
    "CIP"}

\* keywords (lines 260-275)
keywords == sql_keywords \cup placeholder_keywords

RECURSIVE FindIterFrom(_, _, _, _)
\* the scan of re.finditer from p: the next match is the leftmost one that starts at or after p
FindIterFrom(Match(_, _), s, starts, p) ==
    LET ahead == {q \in starts : q >= p}
    IN IF ahead = {} THEN <<>>
       ELSE The({<<m>> \o FindIterFrom(Match, s, starts, m.end) :
                 m \in {Match(s, SetMin(ahead))}})

\* re.finditer(pattern, s) for a pattern that matches no empty string: Match(s, p) is the
\* match found at p, a record with the position `end` after it (0: no match at p) and its
\* groups g1, g2
FindIter(Match(_, _), s) ==
    The({FindIterFrom(Match, s, starts, 1) :
         starts \in {{q \in 1 .. Len(s) : Match(s, q).end > q}}})

NoMatch == [end |-> 0, g1 |-> "", g2 |-> ""]

\* cte_ctx: (?i)\bWITH\s+(\w+)\s+AS\s+
CteMatch(s, p) ==
    LET a == SkipSpaces(s, p + 4)       \* the name
        b == WordEnd(s, a)
        c == SkipSpaces(s, b)           \* AS
        d == SkipSpaces(s, c + 2)
    IN IF /\ WordBoundary(s, p) /\ LitAtCI(s, p, "WITH")
          /\ a > p + 4 /\ b > a
          /\ c > b /\ LitAtCI(s, c, "AS")
          /\ d > c + 2
       THEN [end |-> d, g1 |-> Sub(s, a, b), g2 |-> ""]
       ELSE NoMatch

JoinKinds == {"INNER", "LEFT", "RIGHT", "FULL", "CROSS", "OUTER"}

\* (?i)(?:FROM|JOIN|INNER\s+JOIN|LEFT\s+JOIN|RIGHT\s+JOIN|FULL\s+JOIN|CROSS\s+JOIN|OUTER\s+JOIN)
\* at p: the position after it, 0 when none of the alternatives matches
FromJoinEnd(s, p) ==
    IF LitAtCI(s, p, "FROM") \/ LitAtCI(s, p, "JOIN") THEN p + 4
    ELSE LET e == WordEnd(s, p)
             j == SkipSpaces(s, e)
         IN IF /\ \E kind \in JoinKinds : LitAtCI(s, p, kind) /\ e = p + Len(kind)
               /\ j > e
               /\ LitAtCI(s, j, "JOIN")
            THEN j + 4
            ELSE 0

\* the keywords of `lookahead` that must follow at least one space
LookaheadKeywords ==
    {"ON", "USING", "GROUP", "ORDER", "WHERE", "HAVING", "LIMIT", "OFFSET", "JOIN", "LEFT",
     "INNER", "RIGHT", "CROSS", "FULL", "OUTER"}

\* lookahead: (?=\s+ON|\s+USING|\s*\)|\s*,|\s+GROUP|...|\s*;|\s+JOIN|...|\s+OUTER|\s*$) at p
Lookahead(s, p) ==
    LET q == SkipSpaces(s, p)
    IN \/ q > p /\ \E kw \in LookaheadKeywords : LitAtCI(s, q, kw)
       \/ Ch(s, q) \in {")", ",", ";"}
       \/ q > Len(s)

\* from_join_with_as: (?i)(?:FROM|JOIN|...)\s+(\w+)\s+AS\s+(\w+) + lookahead
FromJoinWithAsMatch(s, p) ==
    LET f == FromJoinEnd(s, p)
        a == SkipSpaces(s, f)           \* the table
        b == WordEnd(s, a)
        c == SkipSpaces(s, b)           \* AS
        d == SkipSpaces(s, c + 2)       \* the alias
        e == WordEnd(s, d)
    IN IF /\ f > 0
          /\ a > f /\ b > a
          /\ c > b /\ LitAtCI(s, c, "AS")
          /\ d > c + 2 /\ e > d
          /\ Lookahead(s, e)
       THEN [end |-> e, g1 |-> Sub(s, a, b), g2 |-> Sub(s, d, e)]
       ELSE NoMatch

\* from_join_no_as: (?i)(?:FROM|JOIN|...)\s+(\w+)(?:\s+(\w+)) + lookahead
FromJoinNoAsMatch(s, p) ==
    LET f == FromJoinEnd(s, p)
        a == SkipSpaces(s, f)           \* the table
        b == WordEnd(s, a)
        c == SkipSpaces(s, b)           \* the second word
        d == WordEnd(s, c)
    IN IF /\ f > 0
          /\ a > f /\ b > a
          /\ c > b /\ d > c
          /\ Lookahead(s, d)
       THEN [end |-> d, g1 |-> Sub(s, a, b), g2 |-> Sub(s, c, d)]
       ELSE NoMatch

\* from_join_table_only: (?i)(?:FROM|JOIN|...)\s+(\w+) + lookahead
FromJoinTableOnlyMatch(s, p) ==
    LET f == FromJoinEnd(s, p)
        a == SkipSpaces(s, f)
        b == WordEnd(s, a)
    IN IF f > 0 /\ a > f /\ b > a /\ Lookahead(s, b)
       THEN [end |-> b, g1 |-> Sub(s, a, b), g2 |-> ""]
       ELSE NoMatch

IsLetterCh(c) == c \in LowerSet \/ c \in UpperSet

\* as_alias: (?i)\bAS\s+(\w+)(?:\s*[,\)]|\s+[A-Z_]|\s*$)
AsAliasMatch(s, p) ==
    LET a == SkipSpaces(s, p + 2)       \* the alias
        b == WordEnd(s, a)
        q == SkipSpaces(s, b)
    IN IF /\ WordBoundary(s, p) /\ LitAtCI(s, p, "AS")
          /\ a > p + 2 /\ b > a
          /\ \/ Ch(s, q) \in {",", ")"}
             \/ q > b /\ (IsLetterCh(Ch(s, q)) \/ Ch(s, q) = "_")
             \/ q > Len(s)
       THEN [end |-> IF q > Len(s) THEN q ELSE q + 1, g1 |-> Sub(s, a, b), g2 |-> ""]
       ELSE NoMatch

\* \b(\w+)\.(\w+)\b
QualifiedMatch(s, p) ==
    LET b == WordEnd(s, p)
        d == WordEnd(s, b + 1)
    IN IF WordBoundary(s, p) /\ b > p /\ Ch(s, b) = "." /\ d > b + 1
       THEN [end |-> d, g1 |-> Sub(s, p, b), g2 |-> Sub(s, b + 1, d)]
       ELSE NoMatch

\* the group 1 of every match of re.finditer(r'\b(\w+)\b', s): the maximal runs of word
\* characters, one per position a run starts at
WordTokens(s) ==
    {Sub(s, q, WordEnd(s, q)) : q \in {r \in 1 .. Len(s) : IsWordCh(Ch(s, r)) /\ ~IsWordCh(Ch(s, r - 1))}}

InSeq(x, sq) == \E j \in DOMAIN sq : sq[j] = x

\* `if a not in order: order.append(a)`
AppendNew(sq, x) == IF InSeq(x, sq) THEN sq ELSE Append(sq, x)

\* d[key] = val on a dict kept as the sequence of its items: a key that is present keeps
\* its place in the iteration order
DictPut(d, key, val) ==
    IF \E j \in DOMAIN d : d[j][1] = key
    THEN [j \in DOMAIN d |-> IF d[j][1] = key THEN <<key, val>> ELSE d[j]]
    ELSE Append(d, <<key, val>>)

RECURSIVE FoldTableAliases(_, _, _)
\* the loops over from_join_with_as and from_join_no_as (lines 195-210); in the second
\* loop the test `a.upper() != 'AS'` is implied by 'AS' being in not_table_alias_kw
FoldTableAliases(ms, j, acc) ==
    IF j > Len(ms) THEN acc
    ELSE LET t == ms[j].g1
             a == ms[j].g2
             withTable == [acc EXCEPT !.tables = @ \cup {t}]
         IN FoldTableAliases(ms, j + 1,
               IF a # "" /\ Upper(a) # "AS" /\ Upper(a) \notin not_table_alias_kw
               THEN [withTable EXCEPT !.alias_to_table = DictPut(@, a, t),
                                      !.table_alias_order = AppendNew(@, a)]
               ELSE withTable)

RECURSIVE FoldColAliases(_, _, _, _)
\* the loop over as_alias (lines 225-232)
FoldColAliases(ms, j, table_aliases_set, col_alias_order) ==
    IF j > Len(ms) THEN col_alias_order
    ELSE LET a == ms[j].g1
         IN FoldColAliases(ms, j + 1, table_aliases_set,
               IF Upper(a) \in col_alias_kw \/ a \in table_aliases_set
               THEN col_alias_order
               ELSE AppendNew(col_alias_order, a))

QualifierNotColumnKw == {"ON", "BY", "AND", "OR", "SELECT", "FROM"}

QualifierNotAliasKw ==
    {"NUM", "STR", "DATE", "GROUP", "ORDER", "WITHIN", "OVER", "PARTITION", "BETWEEN", "LIKE",
     "IN", "IS", "NOT", "EXISTS", "CASE", "THEN", "ELSE", "WHEN", "END", "TRUE", "FALSE", "NULL"}

RECURSIVE FoldQualified(_, _, _)
\* the loop over qualifier.col (lines 236-246)
FoldQualified(ms, j, acc) ==
    IF j > Len(ms) THEN acc
    ELSE LET qual == ms[j].g1
             col == ms[j].g2
             withCol == IF Upper(qual) \notin QualifierNotColumnKw
                        THEN [acc EXCEPT !.columns = @ \cup {col}]
                        ELSE acc
         IN FoldQualified(ms, j + 1,
               IF /\ ~InSeq(qual, acc.table_alias_order)
                  /\ qual \notin acc.tables
                  /\ Upper(qual) \notin QualifierNotAliasKw
               THEN [withCol EXCEPT !.table_alias_order = AppendNew(@, qual)]
               ELSE withCol)

\* re.match(r'^<prefix>\d+$', w, re.I) for a token w; prefix is given in upper case
IsNumbered(w, prefix) ==
    /\ Len(w) > Len(prefix)
    /\ Upper(SubSeq(w, 1, Len(prefix))) = prefix
    /\ DigitsEnd(w, Len(prefix) + 1) = Len(w) + 1

BareTags == {"NUM", "STR", "DATE", "num", "string", "date", "boolean"}

\* the test of the loop over every word (lines 276-290): w is not added to columns
IsSkippedWord(w, raw_sql, acc) ==
    \/ Upper(w) \in keywords
    \/ w \in acc.tables
    \/ InSeq(w, acc.table_alias_order)
    \/ InSeq(w, acc.col_alias_order)
    \/ IsNumbered(w, "TABLE_ALIAS_PLACEHOLDER")
    \/ IsNumbered(w, "COL_ALIAS_PLACEHOLDER")
    \/ w \in {"table_name", "col_name"}
    \/ w \in BareTags
    \/ (raw_sql /\ IsNumericToken(w))

\* the loop over every word (lines 276-290): the sets it tests do not change while it
\* runs, so the words it adds are those that pass the test
FoldWords(words, raw_sql, acc) ==
    [acc EXCEPT !.columns = @ \cup {w \in words : ~IsSkippedWord(w, raw_sql, acc)}]

\* the loops that only add m.group(1) to tables (lines 191-192, 213-214)
FoldTables(ms, tables) == tables \cup {ms[j].g1 : j \in DOMAIN ms}

\* _collect_identifiers_regex(sql, raw_sql): the tables and columns sets, the two alias
\* lists whose enumeration gives table_alias_map and col_alias_map, and alias_to_table
CollectIdentifiers(s, raw_sql) ==
    The({FoldWords(WordTokens(s), raw_sql, qualified) :
         qualified \in {FoldQualified(FindIter(QualifiedMatch, s), 1, colAl) :
         colAl \in {[only EXCEPT !.col_alias_order =
                        FoldColAliases(FindIter(AsAliasMatch, s), 1,
                                       {only.table_alias_order[j] : j \in DOMAIN only.table_alias_order},
                                       <<>>)] :
         only \in {[noAs EXCEPT !.tables = FoldTables(FindIter(FromJoinTableOnlyMatch, s), @)] :
         noAs \in {FoldTableAliases(FindIter(FromJoinNoAsMatch, s), 1, withAs) :
         withAs \in {FoldTableAliases(FindIter(FromJoinWithAsMatch, s), 1, start) :
         start \in {[tables |-> FoldTables(FindIter(CteMatch, s), {}),
                     table_alias_order |-> <<>>,
                     alias_to_table |-> <<>>,
                     col_alias_order |-> <<>>,
                     columns |-> {}]}}}}}}})

----------------------------------------------------------------------------
(* Iteration orders.  A dict iterates in insertion order; a set of strings iterates in   *)
(* an order that depends on the hash seed of the process, so every order is possible.    *)

RECURSIVE AllOrders(_)
\* the orders a `for x in S` can take over a set S
AllOrders(S) ==
    IF S = {} THEN {<<>>}
    ELSE UNION {{<<x>> \o o : o \in AllOrders(S \ {x})} : x \in S}

\* sorted(sq, key=len, reverse=True): stable, so equal lengths keep the order of sq
SortedByLenDesc(sq) ==
    LET rank(j) == Cardinality({i \in DOMAIN sq : Len(sq[i]) > Len(sq[j])})
                   + Cardinality({i \in DOMAIN sq : Len(sq[i]) = Len(sq[j]) /\ i < j}) + 1
    IN [r \in DOMAIN sq |-> sq[CHOOSE j \in DOMAIN sq : rank(j) = r]]

RECURSIVE SortedOrders(_)
\* the results sorted(S, key=len, reverse=True) can have for a set S: the longest strings
\* first, those of one length in the order the set iterates them
SortedOrders(S) ==
    IF S = {} THEN {<<>>}
    ELSE LET longest == {x \in S : \A y \in S : Len(y) <= Len(x)}
         IN UNION {{<<x>> \o o : o \in SortedOrders(S \ {x})} : x \in longest}

SeqToSet(sq) == {sq[j] : j \in DOMAIN sq}

----------------------------------------------------------------------------
(* _build_boolean_col_refs and _replace_literals_bird *)

\* the schema is the sequence of its items <<table, column, type>>, in iteration order
IsBooleanType(typ) == Lower(typ) \in {"boolean", "bool"}

\* the set `refs` of _build_boolean_col_refs; [] when the schema is empty
BooleanColRefSet(sch, tables, alias_to_table) ==
    LET bools == {j \in DOMAIN sch : IsBooleanType(sch[j][3])}
    IN {sch[j][1] \o "." \o sch[j][2] : j \in bools}
       \cup {alias_to_table[a][1] \o "." \o sch[j][2] :
                <<a, j>> \in {<<b, i>> \in (DOMAIN alias_to_table) \X bools :
                                 alias_to_table[b][2] = sch[i][1]}}
       \cup {sch[j][2] : j \in {i \in bools : sch[i][1] \in tables}}

\* \b<ref>\s*=\s*(\d+)\b at p
RefEqualsDigitsEnd(s, p, ref) ==
    LET a == SkipSpaces(s, p + Len(ref))
        b == SkipSpaces(s, a + 1)
        c == DigitsEnd(s, b)
    IN IF /\ WordBoundary(s, p) /\ LitAt(s, p, ref)
          /\ Ch(s, a) = "="
          /\ c > b /\ WordBoundary(s, c)
       THEN c ELSE 0

\* \b<ref>\s*=\s*'([^']|'')*' at p
RefEqualsQuotedEnd(s, p, ref) ==
    LET a == SkipSpaces(s, p + Len(ref))
        b == SkipSpaces(s, a + 1)
    IN IF WordBoundary(s, p) /\ LitAt(s, p, ref) /\ Ch(s, a) = "="
       THEN SingleQuotedEnd(s, b) ELSE 0

\* the tail \s*=\s*<ref>\b from q: the position after it, 0 when it does not match
EqualsRefEnd(s, q, ref) ==
    LET a == SkipSpaces(s, q)
        b == SkipSpaces(s, a + 1)
    IN IF Ch(s, a) = "=" /\ LitAt(s, b, ref) /\ WordBoundary(s, b + Len(ref))
       THEN b + Len(ref) ELSE 0

\* \b(\d+)\s*=\s*<ref>\b at p
DigitsEqualsRefEnd(s, p, ref) ==
    LET d == DigitsEnd(s, p)
    IN IF WordBoundary(s, p) /\ d > p THEN EqualsRefEnd(s, d, ref) ELSE 0

\* '([^']|'')*'\s*=\s*<ref>\b at p
QuotedEqualsRefEnd(s, p, ref) ==
    LET e == SingleQuotedEnd(s, p)
    IN IF e > 0 THEN EqualsRefEnd(s, e, ref) ELSE 0

\* the four re.sub calls of _replace_literals_bird for one ref (lines 150-154)
BooleanPassesOfRef(s, ref) ==
    The({ReSub(LAMBDA t, p : QuotedEqualsRefEnd(t, p, ref), "boolean = " \o ref, c) :
         c \in {ReSub(LAMBDA t, p : DigitsEqualsRefEnd(t, p, ref), "boolean = " \o ref, b) :
         b \in {ReSub(LAMBDA t, p : RefEqualsQuotedEnd(t, p, ref), ref \o " = boolean", a) :
         a \in {ReSub(LAMBDA t, p : RefEqualsDigitsEnd(t, p, ref), ref \o " = boolean", s)}}}})

RECURSIVE BooleanPasses(_, _, _)
\* `for ref in boolean_col_refs:` from its j-th element on
BooleanPasses(s, refs, j) ==
    IF j > Len(refs) THEN s
    ELSE The({BooleanPasses(out, refs, j + 1) : out \in {BooleanPassesOfRef(s, refs[j])}})

\* _replace_literals_bird(sql, boolean_col_refs)
ReplaceLiteralsBird(s, boolean_col_refs) ==
    The({LiteralPasses(out, "date", "string", "num") : out \in {BooleanPasses(s, boolean_col_refs, 1)}})

----------------------------------------------------------------------------
(* _apply_identifier_replacements *)

\* \b<lit>\b at p
BoundedLitEnd(s, p, lit) ==
    IF WordBoundary(s, p) /\ LitAt(s, p, lit) /\ WordBoundary(s, p + Len(lit))
    THEN p + Len(lit) ELSE 0

\* \.<lit>\b at p
DotLitEnd(s, p, lit) ==
    IF Ch(s, p) = "." /\ LitAt(s, p + 1, lit) /\ WordBoundary(s, p + 1 + Len(lit))
    THEN p + 1 + Len(lit) ELSE 0

\* one re.sub of the function: kind "word" is \b<lit>\b, kind "dot" is \.<lit>\b
SubOp(kind, lit, repl) == [kind |-> kind, lit |-> lit, repl |-> repl]

DoSubOp(op, text) ==
    IF op.kind = "word"
    THEN ReSub(LAMBDA t, p : BoundedLitEnd(t, p, op.lit), op.repl, text)
    ELSE ReSub(LAMBDA t, p : DotLitEnd(t, p, op.lit), op.repl, text)

RECURSIVE DoSubOps(_, _, _, _)
\* the re.sub calls ops[a .. b] applied in order (by halves, so that the nesting stays shallow)
DoSubOps(ops, a, b, text) ==
    IF a > b THEN text
    ELSE IF a = b THEN DoSubOp(ops[a], text)
    ELSE The({DoSubOps(ops, (a + b) \div 2 + 1, b, out) :
              out \in {DoSubOps(ops, a, (a + b) \div 2, text)}})

RECURSIVE Flatten(_, _, _)
\* the concatenation of the sequences ss[a .. b]
Flatten(ss, a, b) ==
    IF a > b THEN <<>>
    ELSE IF a = b THEN ss[a]
    ELSE Flatten(ss, a, (a + b) \div 2) \o Flatten(ss, (a + b) \div 2 + 1, b)

\* col_to_types[c] (lines 323-325)
ColToTypes(sch, c) == {sch[j][3] : j \in {i \in DOMAIN sch : sch[i][2] = c}}

\* the test without its second half: a column of several types passes it too
HasSomeType(sch, col) == Cardinality(ColToTypes(sch, col)) >= 1

\* `col in col_to_types and len(col_to_types[col]) == 1`
HasUniqueType(sch, col) == Cardinality(ColToTypes(sch, col)) = 1

\* the re.sub calls of `for alias, table in alias_to_table.items(): for (t, col), typ in
\* schema.items():` (lines 312-316)
AliasSchemaOps(sch, alias_to_table) ==
    Flatten([a \in DOMAIN alias_to_table |->
                Flatten([j \in DOMAIN sch |->
                            IF sch[j][1] = alias_to_table[a][2]
                            THEN <<SubOp("word", alias_to_table[a][1] \o "." \o sch[j][2],
                                         alias_to_table[a][1] \o "." \o sch[j][3])>>
                            ELSE <<>>], 1, Len(sch))],
            1, Len(alias_to_table))

\* the re.sub calls of `for table in tables: for (t, col), typ in schema.items():`
\* (lines 317-321)
TableSchemaOps(sch, tables_iter) ==
    Flatten([a \in DOMAIN tables_iter |->
                Flatten([j \in DOMAIN sch |->
                            IF sch[j][1] = tables_iter[a]
                            THEN <<SubOp("word", tables_iter[a] \o "." \o sch[j][2],
                                         "table_name." \o sch[j][3])>>
                            ELSE <<>>], 1, Len(sch))],
            1, Len(tables_iter))

\* the re.sub calls of the loop over the unqualified columns (lines 326-330)
ColumnSchemaOps(sch, columns_sorted) ==
    Flatten([j \in DOMAIN columns_sorted |->
                IF HasUniqueType(sch, columns_sorted[j])
                THEN <<SubOp("word", columns_sorted[j],
                             CHOOSE typ \in ColToTypes(sch, columns_sorted[j]) : TRUE)>>
                ELSE <<>>],
            1, Len(columns_sorted))

\* cols_replaced_by_schema after the loop above
ColsReplacedBySchema(sch, columns_sorted) ==
    {c \in SeqToSet(columns_sorted) : HasUniqueType(sch, c)}

\* the re.sub calls of a `for alias in sorted(alias_map.keys(), key=len, reverse=True)`
\* (lines 332-335); alias_map is the sequence of the items <<alias, placeholder>>
AliasOps(alias_map) ==
    LET placeholder(a) == alias_map[CHOOSE j \in DOMAIN alias_map : alias_map[j][1] = a][2]
        keys == SortedByLenDesc([j \in DOMAIN alias_map |-> alias_map[j][1]])
    IN [j \in DOMAIN keys |-> SubOp("word", keys[j], placeholder(keys[j]))]

\* the re.sub calls of `for t in sorted(tables, key=len, reverse=True)` (lines 336-339)
TableOps(tables_iter, table_alias_map) ==
    LET aliases == {table_alias_map[j][1] : j \in DOMAIN table_alias_map}
        sorted == SortedByLenDesc(tables_iter)
    IN Flatten([j \in DOMAIN sorted |->
                   IF sorted[j] \in aliases THEN <<>>
                   ELSE <<SubOp("word", sorted[j], "table_name")>>],
               1, Len(sorted))

\* the tests of lines 341-352 that make the last loop skip a column
IsSkippedColumn(col, col_alias_map, schema_given, cols_replaced_by_schema) ==
    \/ Upper(col) \in {"NUM", "STR", "DATE", "TABLE_NAME", "COL_NAME"}
    \/ col \in {"num", "string", "date", "boolean"}
    \/ IsNumbered(col, "TABLE_ALIAS_PLACEHOLDER")
    \/ IsNumbered(col, "COL_ALIAS_PLACEHOLDER")
    \/ IsNumbered(col, "TABLE_ALIAS")
    \/ IsNumbered(col, "COLUMN_ALIAS")
    \/ \E j \in DOMAIN col_alias_map : col_alias_map[j][1] = col
    \/ (schema_given /\ col \in cols_replaced_by_schema)

\* the re.sub calls of the last loop (lines 340-354)
ColumnOps(columns_sorted, col_alias_map, schema_given, cols_replaced_by_schema) ==
    Flatten([j \in DOMAIN columns_sorted |->
                IF IsSkippedColumn(columns_sorted[j], col_alias_map, schema_given,
                                   cols_replaced_by_schema)
                THEN <<>>
                ELSE <<SubOp("dot", columns_sorted[j], ".col_name"),
                       SubOp("word", columns_sorted[j], "col_name")>>],
            1, Len(columns_sorted))

\* every re.sub call of _apply_identifier_replacements, in the order the function makes
\* them; sch is <<>> when the argument schema is None or empty
ReplacementOps(found, table_alias_map, col_alias_map, sch) ==
    LET schema_given == sch # <<>>
        by_schema == IF schema_given
                     THEN AliasSchemaOps(sch, found.alias_to_table)
                          \o TableSchemaOps(sch, found.tables_iter)
                          \o ColumnSchemaOps(sch, found.columns_sorted)
                     ELSE <<>>
        replaced == IF schema_given THEN ColsReplacedBySchema(sch, found.columns_sorted) ELSE {}
    IN by_schema
       \o AliasOps(table_alias_map)
       \o AliasOps(col_alias_map)
       \o TableOps(found.tables_iter, table_alias_map)
       \o ColumnOps(found.columns_sorted, col_alias_map, schema_given, replaced)

\* the re.sub calls ops, applied to text in order
DoAllSubOps(ops, text) == DoSubOps(ops, 1, Len(ops), text)

\* _apply_identifier_replacements(text, tables, table_alias_map, col_alias_map, columns,
\* alias_to_table, schema)
ApplyIdentifierReplacements(text, found, table_alias_map, col_alias_map, sch) ==
    The({DoAllSubOps(ops, text) :
         ops \in {ReplacementOps(found, table_alias_map, col_alias_map, sch)}})

DigitChars == <<"0", "1", "2", "3", "4", "5", "6", "7", "8", "9">>

RECURSIVE IntToStr(_)
\* str(i) for i >= 0, as the f-strings of the alias maps format it
IntToStr(i) == IF i < 10 THEN DigitChars[i + 1] ELSE IntToStr(i \div 10) \o DigitChars[(i % 10) + 1]

\* {a: f"{prefix}{i}" for i, a in enumerate(order)}, as the sequence of its items
EnumerateMap(order, prefix) == [j \in DOMAIN order |-> <<order[j], prefix \o IntToStr(j - 1)>>]

----------------------------------------------------------------------------
(* canonicalize_sql and canonicalize_sql_bird, called once per query of the input file *)

\* "".join(t for is_c, t in segments if not is_c)
NonCommentText(segments) ==
    Join([j \in DOMAIN segments |-> IF segments[j].is_comment THEN "" ELSE segments[j].text])

\* the text _collect_identifiers_regex is called on, and its raw_sql argument:
\* canonicalize_sql collects on the literal-replaced text, canonicalize_sql_bird on the raw one
CollectedText(m, segments) ==
    IF m = "bird" THEN NonCommentText(segments) ELSE ReplaceLiterals(NonCommentText(segments))

Collected(m, segments) ==
    The({CollectIdentifiers(out_flat, m = "bird") : out_flat \in {CollectedText(m, segments)}})

\* the alias maps handed to _apply_identifier_replacements
TableAliasMap(m, found) ==
    EnumerateMap(found.table_alias_order,
                 IF m = "bird" THEN "table_alias" ELSE "table_alias_placeholder")

ColAliasMap(m, found) ==
    EnumerateMap(found.col_alias_order,
                 IF m = "bird" THEN "column_alias" ELSE "col_alias_placeholder")

\* the body of `for is_comment, text in segments:` for a segment of code
CanonCode(m, text, found, sch) ==
    IF m = "bird"
    THEN The({ApplyIdentifierReplacements(seg_out, found, TableAliasMap(m, found),
                                          ColAliasMap(m, found), <<>>) :
              seg_out \in {ReplaceLiteralsBird(text, found.boolean_col_refs)}})
    ELSE The({ApplyIdentifierReplacements(seg_out, found, TableAliasMap(m, found),
                                          ColAliasMap(m, found), sch) :
              seg_out \in {ReplaceLiterals(text)}})

NoIds == [tables |-> {}, table_alias_order |-> <<>>, alias_to_table |-> <<>>,
          col_alias_order |-> <<>>, columns |-> {}, tables_iter |-> <<>>,
          columns_sorted |-> <<>>, boolean_col_refs |-> <<>>]

\* the reader hands the next query to the canonicalizer; an empty or blank query is
\* returned as it is (`if not sql or not sql.strip(): return sql`)
Call ==
    /\ pc = "idle"
    /\ Len(outs) < Len(rows)
    /\ sql' = rows[Len(outs) + 1]
    /\ IF IsBlank(rows[Len(outs) + 1])
       THEN pc' = "idle" /\ outs' = Append(outs, rows[Len(outs) + 1])
       ELSE pc' = "scan" /\ outs' = outs
    /\ scan' = ScanInit
    /\ ids' = NoIds
    /\ k' = 0
    /\ result' = <<>>
    /\ UNCHANGED <<mode, schema, rows>>
    /\ UNCHANGED enumVars

\* one iteration of the loop of _split_comments
Scan ==
    /\ pc = "scan"
    /\ scan.i < Len(sql)
    /\ scan' = ScanStep(sql, scan)
    /\ UNCHANGED <<mode, schema, rows, sql, pc, ids, k, result, outs>>
    /\ UNCHANGED enumVars

\* the loop of _split_comments is over; a query with no code outside its comments is
\* returned as it is (`if not non_comment_text.strip(): return sql`)
Split ==
    /\ pc = "scan"
    /\ scan.i >= Len(sql)
    /\ scan' = ScanFinish(sql, scan)
    /\ IF IsBlank(NonCommentText(scan'.segments))
       THEN pc' = "idle" /\ outs' = Append(outs, sql)
       ELSE pc' = "collect" /\ outs' = outs
    /\ UNCHANGED <<mode, schema, rows, sql, ids, k, result>>
    /\ UNCHANGED enumVars

\* what the call knows about the identifiers of the query: the values found returns and
\* the orders in which this call iterates its sets
WithOrders(found, tables_iter, columns_sorted, boolean_col_refs) ==
    [tables |-> found.tables,
     table_alias_order |-> found.table_alias_order,
     alias_to_table |-> found.alias_to_table,
     col_alias_order |-> found.col_alias_order,
     columns |-> found.columns,
     tables_iter |-> tables_iter,
     columns_sorted |-> columns_sorted,
     boolean_col_refs |-> boolean_col_refs]

\* the set `refs` of _build_boolean_col_refs as canonicalize_sql_bird calls it;
\* canonicalize_sql does not call it
BooleanRefsOf(m, sch, found) ==
    IF m = "bird" THEN BooleanColRefSet(sch, found.tables, found.alias_to_table) ELSE {}

\* the sets tables, columns and refs are given the iteration order they have in this call
Ordered(found) ==
    \E tables_iter \in AllOrders(found.tables),
       columns_sorted \in SortedOrders(found.columns),
       boolean_col_refs \in SortedOrders(BooleanRefsOf(mode, schema, found)) :
         ids' = WithOrders(found, tables_iter, columns_sorted, boolean_col_refs)

\* _collect_identifiers_regex, and in canonicalize_sql_bird _build_boolean_col_refs
Collect ==
    /\ pc = "collect"
    /\ \E found \in {Collected(mode, scan.segments)} : Ordered(found)
    /\ pc' = "emit"
    /\ k' = 1
    /\ result' = <<>>
    /\ UNCHANGED <<mode, schema, rows, sql, scan, outs>>
    /\ UNCHANGED enumVars

\* one iteration of `for is_comment, text in segments:`
Emit ==
    /\ pc = "emit"
    /\ k <= Len(scan.segments)
    /\ result' = Append(result, IF scan.segments[k].is_comment
                                THEN scan.segments[k].text
                                ELSE CanonCode(mode, scan.segments[k].text, ids, schema))
    /\ k' = k + 1
    /\ UNCHANGED <<mode, schema, rows, sql, pc, scan, ids, outs>>
    /\ UNCHANGED enumVars

\* `return "".join(result)`
Return ==
    /\ pc = "emit"
    /\ k > Len(scan.segments)
    /\ outs' = Append(outs, Join(result))
    /\ pc' = "idle"
    /\ UNCHANGED <<mode, schema, rows, sql, scan, ids, k, result>>
    /\ UNCHANGED enumVars

Next == Call \/ Scan \/ Split \/ Collect \/ Emit \/ Return

----------------------------------------------------------------------------
(* The segmenter on its own: _split_comments on every string over the characters its    *)
(* branches test, one action per branch of the loop body.                                *)

MaxSegLen == 5

SegAlphabet == {SQUOTE, DQUOTE, BACKSLASH, "-", "/", "*", NEWLINE, "a"}

\* every string of at most MaxSegLen characters of SegAlphabet
InitSeg ==
    \E n \in 0 .. MaxSegLen : \E chars \in [1 .. n -> SegAlphabet] :
    /\ mode = "generic"
    /\ schema = <<>>
    /\ sql = Join(chars)
    /\ rows = <<Join(chars)>>
    /\ pc = "scan"
    /\ scan = ScanInit
    /\ ids = NoIds
    /\ k = 0
    /\ result = <<>>
    /\ outs = <<>>
    /\ EnumIdle

\* an iteration of the loop that takes the branch `if in_single:`
InSingle ==
    /\ pc = "scan" /\ scan.i < Len(sql)
    /\ scan.in_single
    /\ scan' = InSingleStep(sql, scan)
    /\ UNCHANGED <<mode, schema, rows, sql, pc, ids, k, result, outs>>
    /\ UNCHANGED enumVars

\* an iteration that takes the branch `if in_double:`
InDouble ==
    /\ pc = "scan" /\ scan.i < Len(sql)
    /\ ~scan.in_single /\ scan.in_double
    /\ scan' = InDoubleStep(sql, scan)
    /\ UNCHANGED <<mode, schema, rows, sql, pc, ids, k, result, outs>>
    /\ UNCHANGED enumVars

\* an iteration that consumes a `--` comment
LineComment ==
    /\ pc = "scan" /\ scan.i < Len(sql)
    /\ IsLineCommentAt(sql, scan)
    /\ scan' = LineCommentStep(sql, scan)
    /\ UNCHANGED <<mode, schema, rows, sql, pc, ids, k, result, outs>>
    /\ UNCHANGED enumVars

\* an iteration that consumes a `/* */` comment
BlockComment ==
    /\ pc = "scan" /\ scan.i < Len(sql)
    /\ ~IsLineCommentAt(sql, scan) /\ IsBlockCommentAt(sql, scan)
    /\ scan' = BlockCommentStep(sql, scan)
    /\ UNCHANGED <<mode, schema, rows, sql, pc, ids, k, result, outs>>
    /\ UNCHANGED enumVars

\* an iteration that consumes a character of code
Code ==
    /\ pc = "scan" /\ scan.i < Len(sql)
    /\ ~scan.in_single /\ ~scan.in_double
    /\ ~IsLineCommentAt(sql, scan) /\ ~IsBlockCommentAt(sql, scan)
    /\ scan' = CodeStep(sql, scan)
    /\ UNCHANGED <<mode, schema, rows, sql, pc, ids, k, result, outs>>
    /\ UNCHANGED enumVars

NextSeg == InSingle \/ InDouble \/ LineComment \/ BlockComment \/ Code \/ Split

SpecSeg == InitSeg /\ [][NextSeg]_vars

\* _split_comments has returned
Segmented == pc \in {"collect", "emit"} \/ (pc = "idle" /\ scan.i >= Len(sql))

\* C1: the texts of the segments _split_comments returns, concatenated in order, are the
\* input string, whatever quotes or comments the input leaves open.
C1_Lossless == Segmented => Join(SegmentTexts(scan.segments)) = sql

\* a split into code, a comment and code again that ends inside an open quote
C1_Witness ==
    /\ Segmented
    /\ Len(scan.segments) >= 3
    /\ \E j \in DOMAIN scan.segments : scan.segments[j].is_comment
    /\ scan.in_single

----------------------------------------------------------------------------
(* The canonicalizer on queries: SELECT <projection> FROM <tables> WHERE <predicate>,     *)
(* with or without a comment after it, in both modes, with and without a schema.          *)

Modes == {"generic", "bird"}

\* no schema; one with a boolean column and columns of two types under one name; one with
\* a type the canonicalizer has no tag for and a column named like a tag
Schemas ==
    {<<>>,
     <<<<"t", "f", "boolean">>, <<"u", "f", "num">>, <<"t", "id", "num">>, <<"u", "id", "num">>,
       <<"t", "code", "string">>, <<"u", "code", "num">>, <<"t", "n", "string">>>>,
     <<<<"t", "x", "binary">>, <<"t", "born", "date">>, <<"t", "date", "string">>>>}

Projections == {"*", "a.x", "x AS 'n'", "code, n"}

Froms == {"t", "t a JOIN u AS b ON a.id = b.id", "t JOIN u b ON t.id = b.id"}

Predicates == {"f=1", "b.f = 1", "n = 'a''b'", "code = 2 AND d < DATE '2020'"}

Tails == {"", " -- c 1", " /* t */ LIMIT 5"}

Queries ==
    {"SELECT " \o p \o " FROM " \o f \o " WHERE " \o w \o t :
        p \in Projections, f \in Froms, w \in Predicates, t \in Tails}
    \cup {"", " ", "-- c 1"}

\* the state before the first call, with the batch of queries the reader will hand over
InitOf(batches) ==
    /\ mode \in Modes
    /\ schema \in Schemas
    /\ rows \in batches
    /\ sql = ""
    /\ pc = "idle"
    /\ scan = ScanInit
    /\ ids = NoIds
    /\ k = 0
    /\ result = <<>>
    /\ outs = <<>>
    /\ EnumIdle

Init == InitOf({<<q>> : q \in Queries})

Spec == Init /\ [][Next]_vars

MaxPasses == 2

\* the caller canonicalizes the template it got back, with the same arguments
Recanonicalize ==
    /\ pc = "idle"
    /\ Len(outs) = Len(rows)
    /\ Len(rows) < MaxPasses
    /\ rows' = Append(rows, outs[Len(outs)])
    /\ UNCHANGED <<mode, schema, sql, pc, scan, ids, k, result, outs>>
    /\ UNCHANGED enumVars

NextTwice == Next \/ Recanonicalize

SpecTwice == Init /\ [][NextTwice]_vars

----------------------------------------------------------------------------
(* What the claims speak of: the tokens of a text, and the comments of a query as the     *)
(* specification delimits them.                                                           *)

\* the positions where a maximal run of word characters starts
WordStarts(s) == {p \in 1 .. Len(s) : IsWordCh(Ch(s, p)) /\ ~IsWordCh(Ch(s, p - 1))}

\* the elements of a set of integers, ascending
Ascending(S) ==
    [j \in 1 .. Cardinality(S) |-> CHOOSE q \in S : Cardinality({r \in S : r < q}) = j - 1]

\* the token that starts at p: its text, and whether it stands alone (no dot beside it)
TokenAt(s, p) ==
    [text |-> Sub(s, p, WordEnd(s, p)),
     bare |-> Ch(s, p - 1) # "." /\ Ch(s, WordEnd(s, p)) # ".",
     start |-> p,
     end |-> WordEnd(s, p)]

TokensFrom(s, starts) == [j \in DOMAIN starts |-> TokenAt(s, starts[j])]

\* the word tokens of s, in order
Tokens(s) == TokensFrom(s, Ascending(WordStarts(s)))

\* the call has returned its template
Returned == pc = "idle" /\ outs # <<>>

\* the loop over the segments has just emitted a segment of code
EmittedCode == pc = "emit" /\ k > 1 /\ ~scan.segments[k - 1].is_comment

RECURSIVE QuoteClose(_, _, _)
\* the position after the quote that closes a literal opened with qc, read from q as the
\* specification reads it: a backslash escapes the next character, a doubled quote does
\* not close, and a quote left open runs to the end of the text
QuoteClose(s, q, qc) ==
    IF NextOf(s, q, {qc, BACKSLASH}) > Len(s) THEN Len(s) + 1
    ELSE IF Ch(s, NextOf(s, q, {qc, BACKSLASH})) = BACKSLASH
         THEN QuoteClose(s, NextOf(s, q, {qc, BACKSLASH}) + 2, qc)
    ELSE IF Ch(s, NextOf(s, q, {qc, BACKSLASH}) + 1) = qc
         THEN QuoteClose(s, NextOf(s, q, {qc, BACKSLASH}) + 2, qc)
    ELSE NextOf(s, q, {qc, BACKSLASH}) + 1

\* the first position at or after p where a quote or a comment marker stands
NextMark(s, p) ==
    SetMin({q \in Max(p, 1) .. Len(s) + 1 :
               \/ q = Len(s) + 1
               \/ Ch(s, q) \in {SQUOTE, DQUOTE}
               \/ LitAt(s, q, "--")
               \/ LitAt(s, q, "/*")})

\* the position after the `--` comment that starts at r: after its newline, or the end
LineCommentClose(s, r) == Min(NextOf(s, r + 2, {NEWLINE}) + 1, Len(s) + 1)

\* the position after the block comment that starts at r: after its `*/`, or the end
BlockCommentClose(s, r) ==
    SetMin({q \in r + 4 .. Len(s) + 1 : q = Len(s) + 1 \/ LitAt(s, q - 2, "*/")} \cup {Len(s) + 1})

RECURSIVE CommentsFrom(_, _)
\* the comments of s that begin outside a quoted literal, from the mark at r on, in order
CommentsFrom(s, r) ==
    IF r > Len(s) THEN <<>>
    ELSE IF Ch(s, r) \in {SQUOTE, DQUOTE}
         THEN CommentsFrom(s, NextMark(s, QuoteClose(s, r + 1, Ch(s, r))))
    ELSE IF LitAt(s, r, "--")
         THEN <<Sub(s, r, LineCommentClose(s, r))>>
              \o CommentsFrom(s, NextMark(s, LineCommentClose(s, r)))
    ELSE <<Sub(s, r, BlockCommentClose(s, r))>>
         \o CommentsFrom(s, NextMark(s, BlockCommentClose(s, r)))

Comments(s) == CommentsFrom(s, NextMark(s, 1))

RECURSIVE InOrderFrom(_, _, _, _)
\* the texts cs[j], cs[j + 1], ... occur in out from p on, one after the other
InOrderFrom(out, cs, j, p) ==
    \/ j > Len(cs)
    \/ /\ \E q \in p .. Len(out) : LitAt(out, q, cs[j])
       /\ InOrderFrom(out, cs, j + 1,
                      SetMin({q \in p .. Len(out) : LitAt(out, q, cs[j])}) + Len(cs[j]))

----------------------------------------------------------------------------
(* The claims *)

\* C2: in both modes, every `--` comment and every block comment of the query that begins
\* outside a quoted literal stands in the template as it was written, and the comments keep
\* their order.
C2_CommentsVerbatim == Returned => InOrderFrom(outs[Len(outs)], Comments(sql), 1, 1)

\* C3: canonicalizing the template again, with the same arguments, gives the same template.
C3_Idempotent == Len(outs) >= 2 => outs[2] = outs[1]

\* the words the claims call reserved keywords: those no rule may take for an alias
ReservedWords == not_table_alias_kw \cup col_alias_kw

\* what of s stays when every token that is no reserved keyword is blanked to one "_":
\* the whitespace, the punctuation, the operators and the keywords, in order
FramePiece(s, p) ==
    IF ~IsWordCh(Ch(s, p)) THEN Ch(s, p)
    ELSE IF IsWordCh(Ch(s, p - 1)) THEN ""
    ELSE IF Upper(Sub(s, p, WordEnd(s, p))) \in ReservedWords THEN Sub(s, p, WordEnd(s, p))
    ELSE "_"

Frame(s) == Join([p \in 1 .. Len(s) |-> FramePiece(s, p)])

\* C4: in both modes a segment of code and what is emitted for it differ only inside
\* identifier and literal tokens: whitespace, punctuation, operators and reserved keywords
\* are the same, in the same order.
C4_FramePreserved ==
    EmittedCode => Frame(result[k - 1]) = Frame(ReplaceLiterals(scan.segments[k - 1].text))

\* the position of the first whole-word occurrence of w in text; past the end if none
FirstWord(text, w) ==
    SetMin({q \in 1 .. Len(text) + 1 : q = Len(text) + 1 \/ BoundedLitEnd(text, q, w) > 0})

\* the aliases are numbered in the order of their first occurrence in the text
NumberedAsTheyAppear(text, order) ==
    \A i, j \in DOMAIN order :
        FirstWord(text, order[i]) < FirstWord(text, order[j]) => i < j

\* C7: table aliases are numbered 0, 1, 2, ... in the order of their first appearance in
\* the query text, whichever rule found them, in both modes.
C7_AliasOrder ==
    (pc = "emit" /\ k = 1)
        => NumberedAsTheyAppear(CollectedText(mode, scan.segments), ids.table_alias_order)

\* the tokens of the segment of code just emitted, after literal replacement, and the
\* tokens of what was emitted for it
EmittedIn == Tokens(ReplaceLiterals(scan.segments[k - 1].text))

EmittedOut == Tokens(result[k - 1])

SchemaTypes(sch) == {sch[j][3] : j \in DOMAIN sch}

\* token by token: a bare column of two or more types is col_name in the output, and a
\* bare token rewritten to a type of the schema is a column of exactly one type
AmbiguousStayGeneric(inToks, outToks) ==
    /\ Len(outToks) = Len(inToks)
    /\ \A j \in DOMAIN inToks :
          inToks[j].bare =>
             /\ (/\ inToks[j].text \in ids.columns
                 /\ Cardinality(ColToTypes(schema, inToks[j].text)) >= 2)
                => outToks[j].text = "col_name"
             /\ (/\ outToks[j].text # inToks[j].text
                 /\ outToks[j].text \in SchemaTypes(schema))
                => Cardinality(ColToTypes(schema, inToks[j].text)) = 1

\* C9: in schema-aware substitution a bare column whose name has two or more types in the
\* schema becomes col_name at every bare occurrence, and a bare column becomes a type tag
\* only when its name has exactly one type in the whole schema.
C9_AmbiguousColumn ==
    (EmittedCode /\ mode = "generic" /\ schema # <<>>)
        => AmbiguousStayGeneric(EmittedIn, EmittedOut)

\* a segment with a bare column of two types, emitted as col_name, and a bare column of
\* one type, emitted as that type
AmbiguousAndTyped(inToks, outToks) ==
    /\ \E j \in DOMAIN inToks :
          /\ inToks[j].bare
          /\ inToks[j].text \in ids.columns
          /\ Cardinality(ColToTypes(schema, inToks[j].text)) >= 2
          /\ outToks[j].text = "col_name"
    /\ \E j \in DOMAIN inToks :
          /\ inToks[j].bare
          /\ ColToTypes(schema, inToks[j].text) = {outToks[j].text}

C9_Witness ==
    /\ EmittedCode /\ mode = "generic" /\ schema # <<>>
    /\ AmbiguousAndTyped(EmittedIn, EmittedOut)

\* the segment with each literal replaced by a word that tells its kind and that no
\* query contains: the literals of the segment, apart from the words that look like tags
Marked(text) == LiteralPasses(text, "LITDATE", "LITSTR", "LITNUM")

EmittedMarked == Marked(scan.segments[k - 1].text)

\* the text of s from a up to b, b excluded, is an `=` with nothing but spaces around it
IsEqualsGap(s, a, b) ==
    \E e \in a .. b - 1 :
        /\ Ch(s, e) = "="
        /\ \A q \in (a .. b - 1) \ {e} : IsSpaceCh(Ch(s, q))

\* the reference that ends with token i of toks: <<qualifier, column>>, qualifier "" if bare
RefEndingAt(s, toks, i) ==
    IF i > 1 /\ Ch(s, toks[i].start - 1) = "." /\ toks[i - 1].end = toks[i].start - 1
    THEN <<toks[i - 1].text, toks[i].text>>
    ELSE <<"", toks[i].text>>

\* the reference that starts with token i of toks
RefStartingAt(s, toks, i) ==
    IF i < Len(toks) /\ Ch(s, toks[i].end) = "." /\ toks[i + 1].start = toks[i].end + 1
    THEN <<toks[i].text, toks[i + 1].text>>
    ELSE <<"", toks[i].text>>

\* the references that literal token j of toks is compared to with `=`, on either side
ComparedTo(s, toks, j) ==
    (IF j > 1 /\ IsEqualsGap(s, toks[j - 1].end, toks[j].start)
     THEN {RefEndingAt(s, toks, j - 1)} ELSE {})
    \cup
    (IF j < Len(toks) /\ IsEqualsGap(s, toks[j].end, toks[j + 1].start)
     THEN {RefStartingAt(s, toks, j + 1)} ELSE {})

\* the table a qualifier stands for: the table of the alias, or the qualifier itself
TableOf(qualifier) ==
    IF \E a \in DOMAIN ids.alias_to_table : ids.alias_to_table[a][1] = qualifier
    THEN ids.alias_to_table[CHOOSE a \in DOMAIN ids.alias_to_table :
                               ids.alias_to_table[a][1] = qualifier][2]
    ELSE qualifier

\* the types the schema gives the column a reference names: that of its table if it is
\* qualified, those of the tables of the query if it is bare
TypesOfRef(ref) ==
    IF ref[1] # ""
    THEN {schema[i][3] : i \in {h \in DOMAIN schema :
                                   schema[h][1] = TableOf(ref[1]) /\ schema[h][2] = ref[2]}}
    ELSE {schema[i][3] : i \in {h \in DOMAIN schema :
                                   schema[h][1] \in ids.tables /\ schema[h][2] = ref[2]}}

\* the schema knows the table of the reference, or the reference is bare
IsKnownRef(ref) ==
    ref[1] = "" \/ \E h \in DOMAIN schema : schema[h][1] = TableOf(ref[1])

\* token by token: a literal is emitted as boolean only if it is compared to a reference
\* the schema may type boolean (or knows nothing of), and is emitted as boolean if it is compared to a
\* reference the schema types boolean and nothing else
BooleanIffCompared(s, toks, outToks) ==
    \A j \in DOMAIN toks :
        toks[j].text \in {"LITNUM", "LITSTR"} =>
            /\ outToks[j].text = "boolean"
                  => \E ref \in ComparedTo(s, toks, j) :
                        \/ ~IsKnownRef(ref)
                        \/ \E typ \in TypesOfRef(ref) : IsBooleanType(typ)
            /\ (\E ref \in ComparedTo(s, toks, j) :
                   /\ TypesOfRef(ref) # {}
                   /\ \A typ \in TypesOfRef(ref) : IsBooleanType(typ))
                  => outToks[j].text = "boolean"

\* C8: in boolean-aware mode a literal becomes the tag boolean if and only if it is an
\* operand of an `=` comparison whose other operand refers, bare or through its table or
\* alias, to a column the schema types as boolean.
C8_BooleanIff ==
    (EmittedCode /\ mode = "bird")
        => BooleanIffCompared(EmittedMarked, Tokens(EmittedMarked), EmittedOut)

\* the tag of a kind of literal in a mode
TagOf(m, mark) ==
    IF mark = "LITNUM" THEN (IF m = "bird" THEN "num" ELSE "NUM")
    ELSE IF mark = "LITSTR" THEN (IF m = "bird" THEN "string" ELSE "STR")
    ELSE (IF m = "bird" THEN "date" ELSE "DATE")

\* token by token: where the segment has a literal, the output has the tag of its kind
\* (or, in boolean-aware mode, the tag boolean)
LiteralsAreTags(m, toks, outToks) ==
    /\ Len(outToks) = Len(toks)
    /\ \A j \in DOMAIN toks :
          toks[j].text \in {"LITNUM", "LITSTR", "LITDATE"} =>
              \/ outToks[j].text = TagOf(m, toks[j].text)
              \/ m = "bird" /\ outToks[j].text = "boolean"

\* C10: in the template every numeric literal is NUM, every string literal STR and every
\* date literal the one tag DATE (num, string, date in boolean-aware mode), and the tags
\* are still there after the identifier substitution.
C10_LiteralTags == EmittedCode => LiteralsAreTags(mode, Tokens(EmittedMarked), EmittedOut)

\* the tokens of a segment and of what is emitted for it correspond one to one
TokensAligned == EmittedCode => Len(EmittedOut) = Len(Tokens(EmittedMarked))

----------------------------------------------------------------------------
(* Two queries in a row: two that differ in the value of one literal, or the same twice *)

\* queries with a hole where a literal stands: what is before it and what is after
LiteralHoles ==
    {<<"SELECT * FROM t WHERE y = ", " AND b.z = 2">>,
     <<"SELECT n FROM t a JOIN u AS b ON a.id = b.id WHERE a.f = ", "">>,
     <<"SELECT x FROM t WHERE n = ", " -- c">>}

NumberLiterals == {"7", "15", "1.5"}

StringLiterals == {"'Al'", "'a.b'"}

\* two different literals of one kind
SameKindLiterals ==
    {<<l1, l2>> \in (NumberLiterals \X NumberLiterals) \cup (StringLiterals \X StringLiterals) :
        l1 # l2}

LiteralPairs ==
    {<<h[1] \o ls[1] \o h[2], h[1] \o ls[2] \o h[2]>> : h \in LiteralHoles, ls \in SameKindLiterals}

RepeatedQueries ==
    {"SELECT t.date, born FROM t",
     "SELECT a.x FROM t a JOIN u AS b ON a.id = b.id WHERE f=1",
     "SELECT code, n FROM t, u"}

InitPairs == InitOf(LiteralPairs \cup {<<q, q>> : q \in RepeatedQueries})

SpecPairs == InitPairs /\ [][Next]_vars

\* C5: two queries that differ only in the value of one literal, of the same kind in
\* both, have the same template, in generic mode and in boolean-aware mode.
C5_LiteralValueFree == (rows \in LiteralPairs /\ Len(outs) = 2) => outs[1] = outs[2]

\* C6: the same query with the same schema has the same template at every call, whatever
\* order the sets of the call iterate in and whatever was canonicalized before.
C6_Deterministic == (Len(rows) = 2 /\ rows[1] = rows[2] /\ Len(outs) = 2) => outs[1] = outs[2]

----------------------------------------------------------------------------
(* Both entry points on every string over the segmenter's characters, run to their      *)
(* return.  The statements of one call run one after the other, none waits for another  *)
(* process: a call that can take a step takes it, which is weak fairness of the step.   *)

MaxRunLen == 3

InitRun ==
    \E m \in Modes : \E n \in 0 .. MaxRunLen : \E chars \in [1 .. n -> SegAlphabet] :
    /\ mode = m
    /\ schema = <<>>
    /\ sql = Join(chars)
    /\ rows = <<Join(chars)>>
    /\ pc = "scan"
    /\ scan = ScanInit
    /\ ids = NoIds
    /\ k = 0
    /\ result = <<>>
    /\ outs = <<>>
    /\ EnumIdle

NextRun == NextSeg \/ Collect \/ Emit \/ Return

SpecRun == InitRun /\ [][NextRun]_vars /\ WF_vars(NextRun)

\* the indices at which the branch `if in_single:` subscripts sql: sql[i], and sql[i + 1]
\* when the `and` and the `or` of line 37 get as far as evaluating it
InSingleReads(s, st) ==
    {st.i} \cup (IF At(s, st.i) = SQUOTE /\ ~(st.i + 1 >= Len(s)) THEN {st.i + 1} ELSE {})

\* the same for the branch `if in_double:` (line 44)
InDoubleReads(s, st) ==
    {st.i} \cup (IF At(s, st.i) = DQUOTE /\ ~(st.i + 1 >= Len(s)) THEN {st.i + 1} ELSE {})

\* the indices `while i < n and sql[i] != "\n"` subscripts sql at (line 55)
LineCommentReads(s, st) ==
    {j \in st.i + 2 .. LineCommentScan(s, st.i + 2) : j < Len(s)}

\* the indices one iteration of `while i < n:` subscripts sql at; a slice sql[a:b] is
\* no subscript and cannot raise
ScanReads(s, st) ==
    IF st.in_single THEN InSingleReads(s, st)
    ELSE IF st.in_double THEN InDoubleReads(s, st)
    ELSE IF IsLineCommentAt(s, st) THEN LineCommentReads(s, st)
    ELSE IF IsBlockCommentAt(s, st) THEN {}
    ELSE {st.i}

\* an iteration of the loop of _split_comments raises no IndexError and moves i forward
ScanAdvances ==
    (pc = "scan" /\ scan.i < Len(sql))
        => /\ ScanReads(sql, scan) \subseteq 0 .. Len(sql) - 1
           /\ scan'.i > scan.i
           /\ scan'.i <= Len(sql) + 1

\* C11: on every input, one with a dangling quote, an unterminated block comment or a
\* backslash as the last character of a quote included, each iteration of the segmenter's
\* loop subscripts the input inside its bounds and moves the scan position forward, and
\* the call of canonicalize_sql or canonicalize_sql_bird returns a string.
C11_Terminates == [][ScanAdvances]_vars /\ <>(pc = "idle" /\ Len(outs) = 1)

\* a call that has returned on an input whose last character is a backslash inside a
\* quote that never closes
C11_Witness ==
    /\ pc = "idle" /\ Len(outs) = 1
    /\ scan.in_single
    /\ scan.i = Len(sql) + 1

----------------------------------------------------------------------------
(* canonicalize_sql_bird looks the schema of the query's database up in schema_by_db   *)

DbIds == {"db1", "db2", "db3"}

\* schema_by_db: None, or a dict kept as the sequence of its items (db_id, schema)
NoneMap == [is_none |-> TRUE, items |-> <<>>]

DictMap(items) == [is_none |-> FALSE, items |-> items]

SchemaMaps ==
    {NoneMap, DictMap(<<>>)}
    \cup {DictMap(<<<<"db1", s>>>>) : s \in Schemas}
    \cup {DictMap(<<<<"db1", s>>, <<"db2", t>>>>) : s, t \in Schemas}

\* a lookup that answers with the first database's schema when db_id has no entry
DictGetOrFirst(d, key) ==
    IF \E j \in DOMAIN d : d[j][1] = key
    THEN d[CHOOSE j \in DOMAIN d : d[j][1] = key][2]
    ELSE IF d = <<>> THEN <<>> ELSE d[1][2]

\* d.get(key) on a dict kept as the sequence of its items; None is the empty schema here,
\* as `or {}` turns both into {}
DictGet(d, key) ==
    IF \E j \in DOMAIN d : d[j][1] = key
    THEN d[CHOOSE j \in DOMAIN d : d[j][1] = key][2]
    ELSE <<>>

\* schema = (schema_by_db or {}).get(db_id) or {}
SchemaOf(schema_by_db, db_id) ==
    DictGet(IF schema_by_db.is_none THEN <<>> ELSE schema_by_db.items, db_id)

HasEntry(schema_by_db, db_id) ==
    /\ ~schema_by_db.is_none
    /\ \E j \in DOMAIN schema_by_db.items : schema_by_db.items[j][1] = db_id

\* the reader hands canonicalize_sql_bird the queries with the schema map and the db_id
InitLookup ==
    \E schema_by_db \in SchemaMaps, db_id \in DbIds :
    /\ mode = "bird"
    /\ schema = SchemaOf(schema_by_db, db_id)
    /\ rows \in {<<q>> : q \in Queries}
    /\ sql = ""
    /\ pc = "idle"
    /\ scan = ScanInit
    /\ ids = NoIds
    /\ k = 0
    /\ result = <<>>
    /\ outs = <<>>
    /\ EnumIdle

SpecLookup == InitLookup /\ [][Next]_vars

\* the place of x in the sequence sq, counted from 0
IndexIn(sq, x) == (CHOOSE j \in DOMAIN sq : sq[j] = x) - 1

\* token by token: an alias is its numbered placeholder, a table table_name, a column
\* col_name, a literal the tag of its kind; no token becomes a type of a schema
GenericPlaceholders(toks, outToks) ==
    /\ Len(outToks) = Len(toks)
    /\ \A j \in DOMAIN toks :
          \E w \in {toks[j].text}, out \in {outToks[j].text} :
             /\ InSeq(w, ids.table_alias_order)
                   => out = "table_alias" \o IntToStr(IndexIn(ids.table_alias_order, w))
             /\ (~InSeq(w, ids.table_alias_order) /\ InSeq(w, ids.col_alias_order))
                   => out = "column_alias" \o IntToStr(IndexIn(ids.col_alias_order, w))
             /\ (/\ ~InSeq(w, ids.table_alias_order) /\ ~InSeq(w, ids.col_alias_order)
                 /\ w \in ids.tables)
                   => out = "table_name"
             /\ (/\ ~InSeq(w, ids.table_alias_order) /\ ~InSeq(w, ids.col_alias_order)
                 /\ w \notin ids.tables /\ w \in ids.columns)
                   => out = "col_name"
             /\ w \in {"LITNUM", "LITSTR", "LITDATE"} => out = TagOf("bird", w)
             /\ out # w => out \notin {"boolean", "binary"}

\* every lookup of a database that schema_by_db has no entry for gives the empty schema,
\* the one a database with an empty schema has
MissingIsEmpty ==
    \A schema_by_db \in SchemaMaps, db_id \in DbIds :
        ~HasEntry(schema_by_db, db_id)
            => /\ SchemaOf(schema_by_db, db_id) = <<>>
               /\ SchemaOf(schema_by_db, db_id) = SchemaOf(DictMap(<<<<db_id, <<>>>>>>), db_id)

----------------------------------------------------------------------------
(* Both entry points on every string of blanks, comment markers and a little code *)

MaxBlankLen == 4

BlankAlphabet == {" ", NEWLINE, "-", "/", "*", "a", SQUOTE}

InitBlank ==
    \E m \in Modes : \E n \in 0 .. MaxBlankLen : \E chars \in [1 .. n -> BlankAlphabet] :
    /\ mode = m
    /\ schema = <<>>
    /\ rows = <<Join(chars)>>
    /\ sql = ""
    /\ pc = "idle"
    /\ scan = ScanInit
    /\ ids = NoIds
    /\ k = 0
    /\ result = <<>>
    /\ outs = <<>>
    /\ EnumIdle

SpecBlank == InitBlank /\ [][Next]_vars

RECURSIVE CodeFrom(_, _)
\* the text of s from p on that stands outside every comment, the comments being those
\* that begin outside a quoted literal
CodeFrom(s, p) ==
    IF NextMark(s, p) > Len(s) THEN Sub(s, p, Len(s) + 1)
    ELSE IF Ch(s, NextMark(s, p)) \in {SQUOTE, DQUOTE}
         THEN The({Sub(s, p, c) \o CodeFrom(s, c) :
                   c \in {QuoteClose(s, NextMark(s, p) + 1, Ch(s, NextMark(s, p)))}})
    ELSE IF LitAt(s, NextMark(s, p), "--")
         THEN Sub(s, p, NextMark(s, p)) \o CodeFrom(s, LineCommentClose(s, NextMark(s, p)))
    ELSE Sub(s, p, NextMark(s, p)) \o CodeFrom(s, BlockCommentClose(s, NextMark(s, p)))

\* s is empty or made of spaces, tabs and line ends
OnlyWhitespace(s) == \A p \in 1 .. Len(s) : Ch(s, p) \in {" ", "\n", "\t", "\r", "\f"}

\* C13: a query that is empty, is whitespace only, or has nothing but whitespace outside
\* its comments is returned as it was given, by both entry points, before any identifier
\* is collected or any segment rewritten.
C13_BlankUnchanged ==
    (Returned /\ OnlyWhitespace(CodeFrom(sql, 1)))
        => /\ outs[Len(outs)] = sql
           /\ k = 0
           /\ ids = NoIds

\* a returned query of one comment with whitespace beside it
C13_Witness ==
    /\ Returned
    /\ OnlyWhitespace(CodeFrom(sql, 1))
    /\ CodeFrom(sql, 1) # ""
    /\ Len(Comments(sql)) = 1
    /\ outs[Len(outs)] = sql

----------------------------------------------------------------------------
(* enumerate_template_combinations.py: parse_template *)

\* an `allowed` that is None, and one that is a set of types
NoTypes == [is_none |-> TRUE, types |-> {}]

SomeTypes(types) == [is_none |-> FALSE, types |-> types]

AllTypes == {"num", "string", "date", "boolean"}

\* _merge_type: `current` is None or a set, so the isinstance test is true when reached
_merge_type(current, new_set) ==
    IF current.is_none THEN SomeTypes(new_set) ELSE SomeTypes(current.types \cap new_set)

\* `_merge_type(allowed, new_set) if allowed is None else allowed`
MergeIfNone(allowed, new_set) == IF allowed.is_none THEN _merge_type(allowed, new_set) ELSE allowed

\* `lit in s`
Contains(s, lit) == \E p \in 1 .. Len(s) : LitAt(s, p, lit)

RECURSIVE StrToInt(_)
\* int(d) for a string of decimal digits
StrToInt(d) ==
    IF d = "" THEN 0
    ELSE 10 * StrToInt(SubSeq(d, 1, Len(d) - 1))
         + (CHOOSE v \in 0 .. 9 : DigitChars[v + 1] = SubSeq(d, Len(d), Len(d)))

\* set(re.findall(r"table_alias(\d+)", sql_lower)), each index through int()
AliasIndices(sql_lower) ==
    {StrToInt(Sub(sql_lower, p + 11, DigitsEnd(sql_lower, p + 11))) :
        p \in {q \in 1 .. Len(sql_lower) :
                  LitAt(sql_lower, q, "table_alias") /\ IsDigitCh(Ch(sql_lower, q + 11))}}

SetMax(S) == CHOOSE x \in S : \A y \in S : x >= y

\* lines 46-51
NumTables(sql_lower) ==
    IF AliasIndices(sql_lower) # {} THEN SetMax(AliasIndices(sql_lower)) + 1 ELSE 1

\* re.search(r"\b(f1|f2)\s*\(\s*" + re.escape(ref), s); ref = "" for the pattern that
\* ends at \(
SearchCall(s, fns, ref) ==
    \E p \in 1 .. Len(s) : \E fn \in fns :
        /\ WordBoundary(s, p)
        /\ LitAt(s, p, fn)
        /\ Ch(s, SkipSpaces(s, p + Len(fn))) = "("
        /\ ref # "" => LitAt(s, SkipSpaces(s, SkipSpaces(s, p + Len(fn)) + 1), ref)

\* re.search(re.escape(ref) + r"\s*=\s*tag\b", s)
SearchEquals(s, ref, tag) ==
    \E p \in 1 .. Len(s) :
        /\ LitAt(s, p, ref)
        /\ Ch(s, SkipSpaces(s, p + Len(ref))) = "="
        /\ \E r \in {SkipSpaces(s, SkipSpaces(s, p + Len(ref)) + 1)} :
              LitAt(s, r, tag) /\ WordBoundary(s, r + Len(tag))

\* re.search(re.escape(ref) + r"\s*like\s*string", s)
SearchLike(s, ref) ==
    \E p \in 1 .. Len(s) :
        /\ LitAt(s, p, ref)
        /\ \E q \in {SkipSpaces(s, p + Len(ref))} :
              LitAt(s, q, "like") /\ LitAt(s, SkipSpaces(s, q + 4), "string")

\* one `if test: allowed = _merge_type(allowed, types)`
MergeWhen(test, allowed, types) == IF test THEN _merge_type(allowed, types) ELSE allowed

\* the constraints read off the whole template (lines 74-83, and again lines 91-100)
GlobalTypes(allowed, s) ==
    The({MergeWhen(Contains(s, "like string"), e, {"string"}) :
         e \in {MergeWhen(Contains(s, "= boolean") \/ Contains(s, "=boolean"), d, {"boolean"}) :
         d \in {MergeWhen(Contains(s, "= num") \/ Contains(s, "=num"), c, {"num"}) :
         c \in {MergeWhen(Contains(s, "= string") \/ Contains(s, "=string"), b, {"string"}) :
         b \in {MergeWhen(SearchCall(s, {"avg", "sum"}, ""), allowed, {"num"})}}}}})

\* `if allowed is None: allowed = {"num", "string", "date", "boolean"}`
OrAllTypes(allowed) == IF allowed.is_none THEN AllTypes ELSE allowed.types

\* the body of type_for_alias for alias_ref = ref (lines 57-86): the value of `allowed`
\* after each statement, in the order of the source
TypesOfAliasRef(s, num_tables, ref) ==
    The({OrAllTypes(IF num_tables = 1 /\ Contains(s, "col_name") THEN GlobalTypes(g, s) ELSE g) :
         g \in {MergeWhen(SearchLike(s, ref), f, {"string"}) :
         f \in {MergeWhen(SearchEquals(s, ref, "boolean"), e, {"boolean"}) :
         e \in {MergeWhen(SearchEquals(s, ref, "num"), d, {"num"}) :
         d \in {MergeWhen(SearchEquals(s, ref, "string"), c, {"string"}) :
         c \in {IF SearchCall(s, {"min", "max"}, ref) THEN MergeIfNone(b, {"num", "date"}) ELSE b :
         b \in {MergeWhen(SearchCall(s, {"avg", "sum"}, ref), NoTypes, {"num"})}}}}}}})

\* type_for_alias(alias_idx), lines 55-56
type_for_alias(s, num_tables, alias_idx) ==
    TypesOfAliasRef(s, num_tables, "table_alias" \o IntToStr(alias_idx) \o ".col_name")

\* the branch `if num_tables == 1:` of parse_template, lines 89-105
SingleTableTypes(s) ==
    OrAllTypes(IF Contains(s, "substr(")
               THEN MergeIfNone(GlobalTypes(NoTypes, s), {"string", "date"})
               ELSE GlobalTypes(NoTypes, s))

\* parse_template(sql): (num_tables, column_types); " " + sql.lower() + " " is line 44
parse_template(canonical_sql) ==
    The({[num_tables |-> n,
          column_types |-> IF n = 1 THEN <<SingleTableTypes(s)>>
                           ELSE [i \in 1 .. n |-> type_for_alias(s, n, i - 1)]] :
         <<s, n>> \in {<<l, NumTables(l)>> : l \in {" " \o Lower(canonical_sql) \o " "}}})

----------------------------------------------------------------------------
(* enumerate_template_combinations.py: enumerate_combinations *)

\* `limit`: None, or a number
NoLimit == [is_none |-> TRUE, value |-> 0]

Limit(n) == [is_none |-> FALSE, value |-> n]

\* the loop that reads the templates file (lines 126-129): a row is appended before the
\* limit is tested, so the first row is read whatever the limit
ReadTemplates(file_rows, limit) ==
    IF limit.is_none \/ file_rows = <<>> THEN file_rows
    ELSE SubSeq(file_rows, 1, Min(Len(file_rows), Max(limit.value, 1)))

\* max_tables, lines 131-136
MaxTablesOf(tpls) ==
    SetMax({1} \cup {parse_template(tpls[j][2]).num_tables :
                        j \in {i \in DOMAIN tpls : tpls[i][2] # ""}})

\* the table names of the schemas, in the order sorted() gives them
TableUniverse == <<"t", "u">>

\* sorted(set(t for t, c in schema))
TablesList(sch) ==
    [n \in 1 .. Cardinality({j \in DOMAIN TableUniverse : \E i \in DOMAIN sch : sch[i][1] = TableUniverse[j]}) |->
        TableUniverse[Ascending({j \in DOMAIN TableUniverse :
                                    \E i \in DOMAIN sch : sch[i][1] = TableUniverse[j]})[n]]]

RECURSIVE Product(_)
\* list(itertools.product(*lists)): the last position varies fastest
Product(lists) ==
    IF lists = <<>> THEN <<<<>>>>
    ELSE The({[j \in 1 .. Len(first) * Len(rest) |->
                  <<first[((j - 1) \div Len(rest)) + 1]>> \o rest[((j - 1) % Len(rest)) + 1]] :
              <<first, rest>> \in {<<Head(lists), Product(Tail(lists))>>}})

\* a column list that keeps the columns of the table whatever their type
ColsOfAnyType(sch, table, allowed) ==
    [n \in 1 .. Cardinality({j \in DOMAIN sch : sch[j][1] = table}) |->
        sch[Ascending({j \in DOMAIN sch : sch[j][1] = table})[n]][2]]

\* [c for (t, c), typ in schema.items() if t == table and typ in allowed]
ColsOf(sch, table, allowed) ==
    [n \in 1 .. Cardinality({j \in DOMAIN sch : sch[j][1] = table /\ sch[j][3] \in allowed}) |->
        sch[Ascending({j \in DOMAIN sch : sch[j][1] = table /\ sch[j][3] \in allowed})[n]][2]]

\* slot_cols, lines 154-158
SlotCols(sch, table_combo, column_types) ==
    [i \in DOMAIN table_combo |->
        ColsOf(sch, table_combo[i], IF i <= Len(column_types) THEN column_types[i] ELSE AllTypes)]

\* the row of lines 162-168; the lists under table_names and column_names are the fields
\* table_name, table_name_2, ... and column_name, column_name_2, ...
Row(template_id, db_id, num_tables, max_tables, table_combo, col_combo) ==
    [template_id |-> template_id,
     db_id |-> db_id,
     table_names |-> [i \in 1 .. max_tables |-> IF i <= num_tables THEN table_combo[i] ELSE ""],
     column_names |-> [i \in 1 .. max_tables |-> IF i <= num_tables THEN col_combo[i] ELSE ""]]

\* lines 123-144: the templates are read, the output file is opened, count = 0
OpenFiles ==
    /\ loop.pc = "open"
    /\ loop' = [loop EXCEPT !.pc = "templates", !.max_tables = MaxTablesOf(templates)]
    /\ written' = <<>>
    /\ count' = 0
    /\ UNCHANGED <<templates, databases>>
    /\ UNCHANGED canonVars

\* `for template_id, sql in templates:` with `if not sql: continue` and parse_template
NextTemplate ==
    /\ loop.pc = "templates"
    /\ loop.t < Len(templates)
    /\ loop' = [loop EXCEPT !.t = loop.t + 1,
                            !.d = 0,
                            !.pc = IF templates[loop.t + 1][2] = "" THEN "templates" ELSE "dbs",
                            !.parsed = IF templates[loop.t + 1][2] = "" THEN <<>>
                                       ELSE parse_template(templates[loop.t + 1][2])]
    /\ UNCHANGED <<templates, databases, written, count>>
    /\ UNCHANGED canonVars

\* `for db_id, schema in schema_by_db.items():` with `if not tables_list: continue`
NextDb ==
    /\ loop.pc = "dbs"
    /\ IF loop.d < Len(databases)
       THEN \E tables_list \in {TablesList(databases[loop.d + 1][2])} :
               loop' = [loop EXCEPT !.d = loop.d + 1,
                                    !.pc = IF tables_list = <<>> THEN "dbs" ELSE "tables",
                                    !.table_combos =
                                        IF tables_list = <<>> THEN <<>>
                                        ELSE Product([i \in 1 .. loop.parsed.num_tables |-> tables_list])]
       ELSE loop' = [loop EXCEPT !.pc = "templates"]
    /\ UNCHANGED <<templates, databases, written, count>>
    /\ UNCHANGED canonVars

\* `for table_combo in product(tables_list, repeat=num_tables):` with slot_cols and
\* `if any(not s for s in slot_cols): continue`
NextTableCombo ==
    /\ loop.pc = "tables"
    /\ IF loop.table_combos # <<>>
       THEN \E slot_cols \in {SlotCols(databases[loop.d][2], Head(loop.table_combos),
                                       loop.parsed.column_types)} :
               loop' = [loop EXCEPT !.table_combos = Tail(loop.table_combos),
                                    !.table_combo = Head(loop.table_combos),
                                    !.pc = IF \E i \in DOMAIN slot_cols : slot_cols[i] = <<>>
                                           THEN "tables" ELSE "cols",
                                    !.col_combos = IF \E i \in DOMAIN slot_cols : slot_cols[i] = <<>>
                                                   THEN <<>> ELSE Product(slot_cols)]
       ELSE loop' = [loop EXCEPT !.pc = "dbs"]
    /\ UNCHANGED <<templates, databases, written, count>>
    /\ UNCHANGED canonVars

\* `for col_combo in product(*slot_cols):` with writer.writerow(row) and count += 1
WriteRow ==
    /\ loop.pc = "cols"
    /\ IF loop.col_combos # <<>>
       THEN /\ written' = Append(written,
                                 Row(templates[loop.t][1], databases[loop.d][1],
                                     loop.parsed.num_tables, loop.max_tables,
                                     loop.table_combo, Head(loop.col_combos)))
            /\ count' = count + 1
            /\ loop' = [loop EXCEPT !.col_combos = Tail(loop.col_combos)]
       ELSE /\ loop' = [loop EXCEPT !.pc = "tables"]
            /\ UNCHANGED <<written, count>>
    /\ UNCHANGED <<templates, databases>>
    /\ UNCHANGED canonVars

\* `return count`
ReturnCount ==
    /\ loop.pc = "templates"
    /\ loop.t = Len(templates)
    /\ loop' = [loop EXCEPT !.pc = "returned"]
    /\ UNCHANGED <<templates, databases, written, count>>
    /\ UNCHANGED canonVars

NextEnum == OpenFiles \/ NextTemplate \/ NextDb \/ NextTableCombo \/ WriteRow \/ ReturnCount

\* the canonicalizer is not running
CanonIdle ==
    /\ mode = "bird"
    /\ schema = <<>>
    /\ rows = <<>>
    /\ sql = ""
    /\ pc = "idle"
    /\ scan = ScanInit
    /\ ids = NoIds
    /\ k = 0
    /\ result = <<>>
    /\ outs = <<>>

\* canonical templates as canonicalize_sql_bird writes them, and an empty one
TemplateTexts ==
    {"",
     "SELECT col_name FROM table_name",
     "SELECT col_name FROM table_name WHERE col_name = string",
     "SELECT AVG(col_name) FROM table_name WHERE col_name = string",
     "SELECT SUBSTR(col_name, num, num) FROM table_name",
     "SELECT MAX(table_alias0.col_name) FROM table_name AS table_alias0 INNER JOIN table_name AS table_alias1 ON table_alias0.col_name = table_alias1.col_name WHERE table_alias1.col_name = boolean",
     "SELECT SUM(table_alias0.col_name) FROM table_name AS table_alias0 INNER JOIN table_name AS table_alias1 ON table_alias0.col_name = table_alias1.col_name WHERE table_alias1.col_name LIKE string",
     "SELECT * FROM table_name AS table_alias0, table_name AS table_alias2 WHERE table_alias2.col_name = num"}

MaxTemplates == 2

\* the rows of the templates file: template_id is the row's place in the file
TemplateFiles ==
    UNION {{[j \in 1 .. n |-> <<j, texts[j]>>] : texts \in [1 .. n -> TemplateTexts]} :
              n \in 0 .. MaxTemplates}

\* schema_by_db as load_schema returns it, as the sequence of its items
SchemaByDb ==
    {<<>>,
     <<<<"db1", <<<<"t", "x", "num">>, <<"t", "n", "string">>, <<"u", "f", "boolean">>,
                  <<"u", "d", "date">>, <<"u", "y", "num">>>>>>>>,
     <<<<"db1", <<<<"t", "x", "num">>, <<"u", "n", "string">>>>>>,
       <<"db2", <<<<"t", "a", "string">>, <<"t", "b", "integer">>>>>>>>,
     <<<<"db0", <<>>>>, <<"db2", <<<<"u", "a", "date">>>>>>>>}

InitEnum ==
    /\ \E file_rows \in TemplateFiles, limit \in {NoLimit, Limit(0), Limit(1), Limit(2)} :
          templates = ReadTemplates(file_rows, limit)
    /\ databases \in SchemaByDb
    /\ loop = [NoLoop EXCEPT !.pc = "open"]
    /\ written = <<>>
    /\ count = 0
    /\ CanonIdle

SpecEnum == InitEnum /\ [][NextEnum]_vars

MaxAliasIndex == 9

\* the number of table slots of a template: the highest n with a placeholder
\* table_alias<n> in it, plus one; 1 when it has none
SlotCount(canonical_sql) ==
    SetMax({0} \cup {n \in 0 .. MaxAliasIndex :
                        \E p \in 1 .. Len(canonical_sql) :
                            /\ LitAt(canonical_sql, p, "table_alias" \o IntToStr(n))
                            /\ ~IsDigitCh(Ch(canonical_sql, p + Len("table_alias" \o IntToStr(n))))}) + 1

\* the rows the template tpl asks for in the database db: tables t_1 .. t_N of its schema
\* and columns c_1 .. c_N with (t_i, c_i) an entry whose type parse_template allows in slot i
ExpectedRows(tpl, db) ==
    {[template_id |-> tpl[1], db_id |-> db[1], table_names |-> tc, column_names |-> cc] :
        <<tc, cc>> \in
            UNION {{pair \in [1 .. n -> {db[2][e][1] : e \in DOMAIN db[2]}]
                            \X [1 .. n -> {db[2][e][2] : e \in DOMAIN db[2]}] :
                       \A i \in 1 .. n :
                           /\ i <= Len(types)
                           /\ \E e \in DOMAIN db[2] :
                                 /\ db[2][e][1] = pair[1][i]
                                 /\ db[2][e][2] = pair[2][i]
                                 /\ db[2][e][3] \in types[i]} :
                   <<n, types>> \in {<<SlotCount(tpl[2]), parse_template(tpl[2]).column_types>>}}}

\* the rows asked for by the templates read and the databases given
AllExpectedRows ==
    UNION {ExpectedRows(templates[j], databases[d]) :
              j \in {i \in DOMAIN templates : templates[i][2] # ""}, d \in DOMAIN databases}

\* a written row without the empty fields that fill it up to the width of the file
Filled(row) ==
    [row EXCEPT !.table_names = SubSeq(row.table_names, 1,
                                       Cardinality({i \in DOMAIN row.table_names : row.table_names[i] # ""})),
                !.column_names = SubSeq(row.column_names, 1,
                                        Cardinality({i \in DOMAIN row.column_names : row.column_names[i] # ""}))]

\* C14: for each template read and each database, the rows written are exactly the rows
\* (t_1 .. t_N, c_1 .. c_N), N the template's slot count, with every (t_i, c_i) an entry
\* of the database's schema whose type is in the set parse_template allows for slot i;
\* each is written once, and the count returned is the number of rows written.
C14_ExactRows ==
    loop.pc = "returned"
        => /\ {Filled(written[r]) : r \in DOMAIN written} = AllExpectedRows
           /\ Len(written) = Cardinality(AllExpectedRows)
           /\ count = Len(written)

\* a run that has returned after writing rows of three slots and rows of one slot
C14_Witness ==
    /\ loop.pc = "returned"
    /\ count > 0
    /\ \E r \in DOMAIN written : Len(Filled(written[r]).table_names) = 3
    /\ \E r \in DOMAIN written :
          /\ Len(Filled(written[r]).table_names) = 1
          /\ Len(written[r].table_names) = 3

----------------------------------------------------------------------------
(* Where the literals and the comments of a text are, read as the specification reads   *)
(* them, against where the segmenter takes them to be                                   *)

RECURSIVE ClosingQuote(_, _, _)
\* the position of the quote that closes a literal opened with qc, read from q: a
\* backslash escapes the next character, a doubled quote does not close; 0 when the
\* literal is left open
ClosingQuote(s, q, qc) ==
    IF NextOf(s, q, {qc, BACKSLASH}) > Len(s) THEN 0
    ELSE IF Ch(s, NextOf(s, q, {qc, BACKSLASH})) = BACKSLASH
         THEN ClosingQuote(s, NextOf(s, q, {qc, BACKSLASH}) + 2, qc)
    ELSE IF Ch(s, NextOf(s, q, {qc, BACKSLASH}) + 1) = qc
         THEN ClosingQuote(s, NextOf(s, q, {qc, BACKSLASH}) + 2, qc)
    ELSE NextOf(s, q, {qc, BACKSLASH})

RECURSIVE ModeFrom(_, _, _)
\* what the position p of s is in, r being the first mark at or after a position in code:
\* "code", "single" or "double" (after the opening quote, up to the closing one), or
\* "comment" (after the first character of the comment, up to its last)
ModeFrom(s, r, p) ==
    IF p <= r THEN "code"
    ELSE IF Ch(s, r) \in {SQUOTE, DQUOTE}
         THEN IF ClosingQuote(s, r + 1, Ch(s, r)) = 0 \/ p <= ClosingQuote(s, r + 1, Ch(s, r))
              THEN (IF Ch(s, r) = SQUOTE THEN "single" ELSE "double")
              ELSE ModeFrom(s, NextMark(s, ClosingQuote(s, r + 1, Ch(s, r)) + 1), p)
    ELSE IF LitAt(s, r, "--")
         THEN IF p < LineCommentClose(s, r) THEN "comment"
              ELSE ModeFrom(s, NextMark(s, LineCommentClose(s, r)), p)
    ELSE IF p < BlockCommentClose(s, r) THEN "comment"
         ELSE ModeFrom(s, NextMark(s, BlockCommentClose(s, r)), p)

ModeAt(s, p) == ModeFrom(s, NextMark(s, 1), p)

\* s has the quote qc doubled inside a literal opened with qc, before the position p
DoubledBefore(s, p, qc, kind) ==
    \E q \in 1 .. p - 2 :
        /\ Ch(s, q) = qc /\ Ch(s, q + 1) = qc
        /\ ModeAt(s, q) = kind /\ ModeAt(s, q + 1) = kind

\* C15: inside a single-quoted literal a doubled quote '' does not close the literal: past
\* the pair the segmenter is still inside, the literal closes only at an unpaired quote,
\* and past the closing quote the segmenter is in code; the same for "" inside double
\* quotes.
C15_DoubledQuote ==
    /\ (pc = "scan" /\ DoubledBefore(sql, scan.i + 1, SQUOTE, "single"))
          => (scan.in_single <=> ModeAt(sql, scan.i + 1) = "single")
    /\ (pc = "scan" /\ DoubledBefore(sql, scan.i + 1, DQUOTE, "double"))
          => (scan.in_double <=> ModeAt(sql, scan.i + 1) = "double")

\* the segmenter's two flags say what the position it stands at is in
FlagsAgree ==
    pc = "scan" => /\ scan.in_single <=> ModeAt(sql, scan.i + 1) = "single"
                   /\ scan.in_double <=> ModeAt(sql, scan.i + 1) = "double"

\* no quote of s is followed by a quote
NoDoubledQuote(s) == \A q \in 1 .. Len(s) - 1 : ~(Ch(s, q) \in {SQUOTE, DQUOTE} /\ Ch(s, q + 1) = Ch(s, q))

FlagsAgreeWithoutDoubled == NoDoubledQuote(sql) => FlagsAgree

\* the positions of sql at which a segment of the list begins, the first one apart
Boundaries(segs) ==
    {Len(Join(SubSeq(SegmentTexts(segs), 1, j))) + 1 : j \in 1 .. Len(segs) - 1}

\* C16: no segment boundary falls inside a quoted literal: a `--` or `/*` between an
\* opening quote and its closing quote starts no comment segment, a quote after a
\* backslash inside the literal does not close it, and a quote of the other kind inside
\* the literal opens and closes nothing.
C16_NoBoundaryInLiteral ==
    Segmented => \A b \in Boundaries(scan.segments) : ModeAt(sql, b) \notin {"single", "double"}

\* the same on the texts that double no quote
BoundariesWithoutDoubled == NoDoubledQuote(sql) => C16_NoBoundaryInLiteral

\* a comment segment `--`: it ends with the first newline after the marker, or holds no
\* newline and is the last segment
IsLineCommentText(text, is_last) ==
    /\ LitAt(text, 1, "--")
    /\ IF NextOf(text, 3, {NEWLINE}) <= Len(text)
       THEN NextOf(text, 3, {NEWLINE}) = Len(text)
       ELSE is_last

\* a comment segment `/*`: it ends with the first `*/` that starts after the marker, or
\* holds none and is the last segment
IsBlockCommentText(text, is_last) ==
    /\ LitAt(text, 1, "/*")
    /\ IF \E q \in 3 .. Len(text) : LitAt(text, q, "*/")
       THEN SetMin({q \in 3 .. Len(text) : LitAt(text, q, "*/")}) = Len(text) - 1
       ELSE is_last

\* every segment tagged a comment is one whole comment, and no two segments of code are
\* neighbours
CommentsAreWhole(segs) ==
    /\ \A j \in DOMAIN segs :
          IF segs[j].is_comment
          THEN \/ IsLineCommentText(segs[j].text, j = Len(segs))
               \/ IsBlockCommentText(segs[j].text, j = Len(segs))
          ELSE /\ segs[j].text # ""
               /\ j < Len(segs) => segs[j + 1].is_comment

\* C17: every comment the segmenter detects is one segment tagged is_comment: a line
\* comment runs from `--` to the first newline after it, included, or to the end of the
\* input; a block comment runs from `/*` to the first `*/` that starts after the marker,
\* included (so `/*/` is unterminated), or to the end of the input; the code between two
\* comments is one segment of code, and nothing follows an unterminated comment.
C17_CommentsWhole ==
    Segmented => /\ CommentsAreWhole(scan.segments)
                 /\ Join(SegmentTexts(scan.segments)) = sql

\* code, then the block comment `/*/` that never ends, with what follows inside it
C17_Witness ==
    /\ Segmented
    /\ Len(scan.segments) = 2
    /\ ~scan.segments[1].is_comment
    /\ scan.segments[2].is_comment
    /\ LitAt(scan.segments[2].text, 1, "/*/")
    /\ Len(scan.segments[2].text) = 4

----------------------------------------------------------------------------
(* Queries whose FROM or JOIN names a table with no alias, a keyword right after it *)

ClauseKeywords ==
    {"ON", "USING", "WHERE", "GROUP", "ORDER", "HAVING", "LIMIT", "OFFSET",
     "JOIN", "LEFT", "RIGHT", "INNER", "FULL", "CROSS", "OUTER"}

JoinClauses ==
    {"WHERE y = 1", "GROUP BY x", "ORDER BY x", "HAVING x = 1", "LIMIT 5", "OFFSET 5",
     "JOIN u ON t.id = u.id", "JOIN u USING (id) WHERE y = 1"}
    \cup {kind \o " JOIN u USING (id)" : kind \in JoinKinds}
    \cup {kind \o " OUTER JOIN u ON t.id = u.id" : kind \in {"LEFT", "RIGHT", "FULL"}}

JoinQueries == {"SELECT x FROM t " \o c : c \in JoinClauses}

InitJoin == InitOf({<<q>> : q \in JoinQueries})

SpecJoin == InitJoin /\ [][Next]_vars

\* token by token: where FROM or JOIN is followed by a table and the table by a clause
\* keyword, the keyword is no alias, the table is a table, and the keyword stands in the
\* output as it was
KeywordAfterTable(toks, outToks) ==
    /\ Len(outToks) = Len(toks)
    /\ \A j \in 2 .. Len(toks) - 1 :
          (/\ Upper(toks[j - 1].text) \in {"FROM", "JOIN"}
           /\ Upper(toks[j].text) \notin ClauseKeywords
           /\ Upper(toks[j + 1].text) \in ClauseKeywords)
             => /\ ~InSeq(toks[j + 1].text, ids.table_alias_order)
                /\ \A e \in DOMAIN ids.alias_to_table : ids.alias_to_table[e][1] # toks[j + 1].text
                /\ toks[j].text \in ids.tables
                /\ outToks[j + 1].text = toks[j + 1].text

\* C18: for a `FROM <table>` or `JOIN <table>` with no alias that a clause keyword or a
\* join-kind keyword follows (ON, USING, WHERE, GROUP, ORDER, HAVING, LIMIT, OFFSET, JOIN,
\* LEFT, RIGHT, INNER, FULL, CROSS, OUTER), the keyword is entered neither in the table
\* alias map nor in alias_to_table, the table is recorded in tables, and the keyword is
\* unchanged in the output.
C18_KeywordNotAlias ==
    (Returned /\ pc = "idle" /\ ids # NoIds)
        => KeywordAfterTable(Tokens(sql), Tokens(outs[Len(outs)]))

----------------------------------------------------------------------------
(* Queries with AS before a column alias, a table alias, a type name and a literal *)

AsQueries ==
    {"SELECT x AS y FROM t",
     "SELECT x AS y FROM t AS a WHERE a.x = 1",
     "SELECT CAST(x AS DATE) FROM t",
     "SELECT COUNT(x) AS count, y AS d FROM t",
     "SELECT x AS 'n' FROM t",
     "SELECT x FROM t AS a JOIN u AS b ON a.id = b.id"}

InitAs == InitOf({<<q>> : q \in AsQueries})

SpecAs == InitAs /\ [][Next]_vars

\* the placeholders of column aliases, in either mode
IsColAliasPlaceholder(w) == IsNumbered(w, "COL_ALIAS_PLACEHOLDER") \/ IsNumbered(w, "COLUMN_ALIAS")

\* token by token: no keyword and no tag of the literal-replaced segment is a column-alias
\* placeholder in the output
KeywordsKeepTheirText(toks, outToks) ==
    /\ Len(outToks) = Len(toks)
    /\ \A j \in DOMAIN toks :
          Upper(toks[j].text) \in keywords => ~IsColAliasPlaceholder(outToks[j].text)

\* C19: a token that follows AS is entered in the column alias map only if it is no
\* keyword and no placeholder tag of the resolver's list and no table alias, so no keyword
\* and no tag (the type name of CAST(x AS DATE), the tag of a literal) is rewritten to a
\* column-alias placeholder.
C19_ColumnAliasNotKeyword ==
    /\ pc = "emit"
          => \A j \in DOMAIN ids.col_alias_order :
                /\ Upper(ids.col_alias_order[j]) \notin keywords
                /\ ~InSeq(ids.col_alias_order[j], ids.table_alias_order)
    /\ EmittedCode => KeywordsKeepTheirText(EmittedIn, EmittedOut)

----------------------------------------------------------------------------
(* Queries that end with a numeric literal of each form, after an identifier that holds *)
(* a digit                                                                              *)

NumericForms == {"5", "15", "1.5", "0.5", "1e5", "1.5e-3", "2.5E+3", ".5"}

NumericHead == "SELECT col2 FROM t WHERE y = "

InitNumeric ==
    /\ mode \in Modes
    /\ schema \in {<<>>, <<<<"t", "col2", "date">>, <<"t", "y", "num">>>>}
    /\ rows \in {<<NumericHead \o lit>> : lit \in NumericForms}
    /\ sql = ""
    /\ pc = "idle"
    /\ scan = ScanInit
    /\ ids = NoIds
    /\ k = 0
    /\ result = <<>>
    /\ outs = <<>>
    /\ EnumIdle

SpecNumeric == InitNumeric /\ [][Next]_vars

\* what the literal replacement of the mode makes of the segment just emitted
EmittedLiterals ==
    IF mode = "bird"
    THEN ReplaceLiteralsBird(scan.segments[k - 1].text, ids.boolean_col_refs)
    ELSE ReplaceLiterals(scan.segments[k - 1].text)

\* C20: every numeric literal, be it an integer, a decimal, in scientific notation or a
\* decimal with a leading dot such as .5, is replaced whole by one numeric tag, no
\* character of it left in the output, and no digit of a longer identifier (the 2 of
\* col2) is replaced.
C20_NumericWhole ==
    EmittedCode
        => /\ EmittedLiterals = NumericHead \o TagOf(mode, "LITNUM")
           /\ \E tag \in {" " \o TagOf(mode, "LITNUM")} :
                 Sub(result[k - 1], Len(result[k - 1]) - Len(tag) + 1, Len(result[k - 1]) + 1) = tag
           /\ \A p \in 1 .. Len(result[k - 1]) : Ch(result[k - 1], p) \notin Digits \cup {"."}

\* ---------------------------------------------------------------------------------------
\* Qualified references under a schema (_apply_identifier_replacements, lines 308-355)
\* ---------------------------------------------------------------------------------------

\* queries whose columns are written through an alias or through the table name
QualifiedQueries ==
    {"SELECT a.x FROM t a JOIN u AS b ON a.id = b.id WHERE b.f = 1",
     "SELECT t.id, u.code FROM t JOIN u ON t.id = u.id",
     "SELECT a.code, b.code FROM t a JOIN u b ON a.id = b.id",
     "SELECT a.born FROM t a",
     "SELECT a.born, a.date FROM t AS a WHERE a.x = 1",
     "SELECT t.born FROM t WHERE t.x = 1",
     "SELECT a.n FROM t a -- a.n",
     "SELECT t.f, t.n FROM t"}

InitQualified == InitOf({<<q>> : q \in QualifiedQueries})

SpecQualified == InitQualified /\ [][Next]_vars

\* the alias is bound to the table by a FROM/JOIN clause
IsBoundTo(alias, table) ==
    \E e \in DOMAIN ids.alias_to_table : ids.alias_to_table[e] = <<alias, table>>

\* the placeholder of the generic mode for a table alias
IsPlaceholderOf(text, alias) ==
    \E j \in DOMAIN ids.table_alias_order :
        /\ ids.table_alias_order[j] = alias
        /\ text = "table_alias_placeholder" \o IntToStr(j - 1)

\* token j of toks is the column of a qualified reference the schema resolves
IsResolvedAt(s, toks, j) ==
    /\ RefEndingAt(s, toks, j)[1] # ""
    /\ \E h \in DOMAIN schema :
          /\ schema[h][2] = toks[j].text
          /\ \/ IsBoundTo(toks[j - 1].text, schema[h][1])
             \/ toks[j - 1].text = schema[h][1] /\ schema[h][1] \in ids.tables

\* token by token: `a.c` is emitted as `<placeholder of a>.T` and `t.c` as `table_name.T`
QualifiedResolved(s, toks, outToks) ==
    /\ Len(outToks) = Len(toks)
    /\ \A j \in 2 .. Len(toks) :
          RefEndingAt(s, toks, j)[1] # "" =>
              \A h \in DOMAIN schema :
                  schema[h][2] = toks[j].text =>
                      /\ IsBoundTo(toks[j - 1].text, schema[h][1])
                            => /\ IsPlaceholderOf(outToks[j - 1].text, toks[j - 1].text)
                               /\ outToks[j].text = schema[h][3]
                      /\ (/\ toks[j - 1].text = schema[h][1]
                          /\ schema[h][1] \in ids.tables
                          /\ ~InSeq(schema[h][1], ids.table_alias_order))
                            => /\ outToks[j - 1].text = "table_name"
                               /\ outToks[j].text = schema[h][3]

\* C21: in generic mode with a schema, for every alias a bound to table t by a FROM/JOIN
\* clause and every schema entry (t, c) of type T, each `a.c` is emitted as
\* `<placeholder of a>.T` and each `t.c` as `table_name.T`; no later substitution rewrites
\* the resolved column to col_name or to the type of another column.
C21_QualifiedResolved ==
    (EmittedCode /\ mode = "generic" /\ schema # <<>>)
        => QualifiedResolved(ReplaceLiterals(scan.segments[k - 1].text), EmittedIn, EmittedOut)

\* no type of the schema is the name of one of its columns
NoColumnNamedAsType ==
    \A h \in DOMAIN schema : \A i \in DOMAIN schema : schema[h][3] # schema[i][2]

\* the same statement for the schemas in which no column bears the name of a type
QualifiedResolvedWithoutTypeNames ==
    (EmittedCode /\ mode = "generic" /\ schema # <<>> /\ NoColumnNamedAsType)
        => QualifiedResolved(ReplaceLiterals(scan.segments[k - 1].text), EmittedIn, EmittedOut)

\* a qualified reference the schema resolves has been emitted
C21_Resolved ==
    /\ EmittedCode /\ mode = "generic" /\ schema # <<>> /\ NoColumnNamedAsType
    /\ \E j \in 2 .. Len(EmittedIn) :
          IsResolvedAt(ReplaceLiterals(scan.segments[k - 1].text), EmittedIn, j)

\* ---------------------------------------------------------------------------------------
\* Bare names in the boolean reference set (_build_boolean_col_refs, lines 119-140)
\* ---------------------------------------------------------------------------------------

\* the tables of the query in which the schema has a column c
TablesWithColumn(c) ==
    {t \in ids.tables : \E h \in DOMAIN schema : schema[h][1] = t /\ schema[h][2] = c}

\* exactly one table of the query has a column c, and that column is boolean
IsTableUnambiguous(c) ==
    /\ Cardinality(TablesWithColumn(c)) = 1
    /\ \A h \in DOMAIN schema :
          (schema[h][1] \in ids.tables /\ schema[h][2] = c) => IsBooleanType(schema[h][3])

\* every bare name of the boolean reference set is table-unambiguous
BareRefsUnambiguous ==
    \A j \in DOMAIN ids.boolean_col_refs :
        ~Contains(ids.boolean_col_refs[j], ".") => IsTableUnambiguous(ids.boolean_col_refs[j])

\* token by token: a literal compared to a bare column that a table of the query types
\* otherwise than boolean is not emitted as boolean
AmbiguousNotBoolean(s, toks, outToks) ==
    \A j \in DOMAIN toks :
        (/\ toks[j].text \in {"LITNUM", "LITSTR"}
         /\ \E ref \in ComparedTo(s, toks, j) :
               /\ ref[1] = ""
               /\ \E h \in DOMAIN schema :
                     /\ schema[h][1] \in ids.tables
                     /\ schema[h][2] = ref[2]
                     /\ ~IsBooleanType(schema[h][3]))
            => outToks[j].text # "boolean"

\* C22: a bare column name c is in the boolean reference set of a query only when exactly
\* one of the tables the query references has a column c and that column is boolean; when
\* another referenced table has a non-boolean column c, the literal of a comparison
\* `c = <literal>` is not tagged boolean.
C22_BareRefUnambiguous ==
    (pc = "emit" /\ mode = "bird")
        => /\ BareRefsUnambiguous
           /\ EmittedCode
                 => AmbiguousNotBoolean(EmittedMarked, Tokens(EmittedMarked), EmittedOut)

\* what the code ensures: a bare name of the set is a boolean column of some table of the query
BareRefsBooleanSomewhere ==
    (pc = "emit" /\ mode = "bird")
        => \A j \in DOMAIN ids.boolean_col_refs :
              ~Contains(ids.boolean_col_refs[j], ".")
                 => \E h \in DOMAIN schema :
                       /\ schema[h][1] \in ids.tables
                       /\ schema[h][2] = ids.boolean_col_refs[j]
                       /\ IsBooleanType(schema[h][3])

\* ---------------------------------------------------------------------------------------
\* Numeric literals and the identifier sets in raw mode (lines 106-116, 234-246, 276-290)
\* ---------------------------------------------------------------------------------------

\* a token made only of digits
OnlyDigits(w) == w # "" /\ \A p \in 1 .. Len(w) : IsDigitCh(Ch(w, p))

\* the words of s that begin with a digit: the parts of its numeric literals
NumericParts(s) ==
    {tok.text : tok \in {t \in {Tokens(s)[j] : j \in DOMAIN Tokens(s)} : IsDigitCh(Ch(t.text, 1))}}

\* every name the resolver has put in one of its sets
CollectedNames ==
    ids.tables \cup ids.columns
    \cup {ids.table_alias_order[j] : j \in DOMAIN ids.table_alias_order}
    \cup {ids.col_alias_order[j] : j \in DOMAIN ids.col_alias_order}
    \cup {ids.alias_to_table[j][1] : j \in DOMAIN ids.alias_to_table}
    \cup {ids.alias_to_table[j][2] : j \in DOMAIN ids.alias_to_table}

\* C23: in raw mode (canonicalize_sql_bird, resolver run before the literals are replaced)
\* no token made only of digits and no part of a numeric literal, such as the integer or
\* the fraction part of 1.5, is in the column set, the table alias map or any other
\* identifier set.
C23_NoNumericIdentifier ==
    (pc = "emit" /\ mode = "bird")
        => \A w \in CollectedNames : ~OnlyDigits(w) /\ w \notin NumericParts(sql)

\* what the code ensures: the numeric token exclusion of the bare-word loop; a name made
\* only of digits is in a set only if the query writes it next to a dot
DigitsOnlyBesideDot ==
    (pc = "emit" /\ mode = "bird")
        => \A w \in CollectedNames :
              w \in NumericParts(sql)
                 => \E j \in DOMAIN Tokens(sql) :
                       /\ Tokens(sql)[j].text = w
                       /\ \/ Ch(sql, Tokens(sql)[j].start - 1) = "."
                          \/ Ch(sql, Tokens(sql)[j].end) = "."

\* ---------------------------------------------------------------------------------------
\* A written placeholder is final (_apply_identifier_replacements, lines 307-355)
\* ---------------------------------------------------------------------------------------

\* the re.sub calls of the call that rewrites the segment just emitted
EmittedOps ==
    ReplacementOps(ids, TableAliasMap(mode, ids), ColAliasMap(mode, ids),
                   IF mode = "bird" THEN <<>> ELSE schema)

\* the position of the dot of a literal `q.c`, 0 if it has none
DotOf(lit) ==
    IF \E p \in 1 .. Len(lit) : Ch(lit, p) = "."
    THEN CHOOSE p \in 1 .. Len(lit) : Ch(lit, p) = "." ELSE 0

\* what the substitution op writes over token j of the text s it is given, "" if its
\* pattern does not cover the token or leaves it as it is
WrittenAt(op, s, toks, j) ==
    IF op.kind = "dot"
    THEN IF toks[j].text = op.lit /\ Ch(s, toks[j].start - 1) = "." THEN "col_name" ELSE ""
    ELSE IF DotOf(op.lit) = 0
    THEN IF toks[j].text = op.lit THEN op.repl ELSE ""
    ELSE LET q == Sub(op.lit, 1, DotOf(op.lit))
             c == Sub(op.lit, DotOf(op.lit) + 1, Len(op.lit) + 1)
             qTo == Sub(op.repl, 1, DotOf(op.repl))
             cTo == Sub(op.repl, DotOf(op.repl) + 1, Len(op.repl) + 1)
         IN IF RefEndingAt(s, toks, j) = <<q, c>> THEN cTo
            ELSE IF RefStartingAt(s, toks, j) = <<q, c>> /\ qTo # q THEN qTo
            ELSE ""

\* the placeholder of token j by its own classification: what the first substitution whose
\* pattern covers the token in the text given to the call writes over it
OwnPlaceholder(ops, s, toks, j) ==
    LET hits == {i \in DOMAIN ops : WrittenAt(ops[i], s, toks, j) # ""}
    IN IF hits = {} THEN toks[j].text
       ELSE WrittenAt(ops[CHOOSE i \in hits : \A h \in hits : i <= h], s, toks, j)

\* token by token: the output has the placeholder of the token's own classification
WritesStay(ops, s, toks, outToks) ==
    /\ Len(outToks) = Len(toks)
    /\ \A j \in DOMAIN toks : outToks[j].text = OwnPlaceholder(ops, s, toks, j)

\* C24: within one call of _apply_identifier_replacements a placeholder or type tag written
\* by one substitution is not altered by a later one: the token in the output at the place
\* of an original identifier is the placeholder of that identifier's own classification.
C24_WritesStay ==
    EmittedCode
        => \E ops \in {EmittedOps} : \E s \in {EmittedLiterals} :
              WritesStay(ops, s, Tokens(s), EmittedOut)

\* the same statement for the calls without a schema
WritesStayWithoutSchema ==
    (EmittedCode /\ (mode = "bird" \/ schema = <<>>))
        => \E ops \in {EmittedOps} : \E s \in {EmittedLiterals} :
              WritesStay(ops, s, Tokens(s), EmittedOut)

\* ---------------------------------------------------------------------------------------
\* The quote state at the end of a comment (_split_comments, lines 50-77)
\* ---------------------------------------------------------------------------------------

RECURSIVE SplitFrom(_, _)
\* the segments the loop of _split_comments returns when it is resumed in the state st
SplitFrom(s, st) ==
    IF st.i < Len(s) THEN SplitFrom(s, ScanStep(s, st)) ELSE ScanFinish(s, st).segments

\* _split_comments(sql)
SplitComments(s) == SplitFrom(s, ScanInit)

\* the iteration just made has consumed a comment
JustAfterComment ==
    /\ pc = "scan"
    /\ scan.segments # <<>>
    /\ scan.segments[Len(scan.segments)].is_comment
    /\ scan.i = scan.code_start

\* the segments after the j-th are those of the text after it, split on its own
RestAsIfAbsent(s, segs, j) ==
    SubSeq(segs, j + 1, Len(segs))
        = SplitComments(Slice(s, Len(Join(SegmentTexts(SubSeq(segs, 1, j)))), Len(s)))

\* C25: quote characters inside a comment do not change the quote state of the segmenter:
\* when a line or block comment ends, in_single and in_double are both false, whatever
\* quotes the comment contains, and the text after the comment is split as if the comment
\* were absent.
C25_CommentKeepsQuoteState ==
    /\ JustAfterComment => (~scan.in_single /\ ~scan.in_double)
    /\ Segmented
          => \A j \in DOMAIN scan.segments :
                scan.segments[j].is_comment => RestAsIfAbsent(sql, scan.segments, j)

\* a comment that contains a quote has just ended and a quote follows it
C25_Witness ==
    /\ JustAfterComment
    /\ \E p \in 1 .. Len(scan.segments[Len(scan.segments)].text) :
          Ch(scan.segments[Len(scan.segments)].text, p) \in {SQUOTE, DQUOTE}
    /\ At(sql, scan.i) \in {SQUOTE, DQUOTE}

====
